---- MODULE Spec2Model ----
(***************************************************************************)
(* AskAussie: retrieval-augmented chat over a fixed corpus.                *)
(*                                                                         *)
(* The module models three parts of the repository:                        *)
(*   - the similarity ranker (cosineSimilarity, findRelevantSections),     *)
(*     as pure operators exercised by SpecRank;                            *)
(*   - the /api/chat route handlers (the streaming handler and the         *)
(*     non-streaming handler of route.ts), exercised by Spec;              *)
(*   - the chat page's sendMessage / stopStreaming / stream read loop,     *)
(*     exercised by SpecClient and SpecStream.                             *)
(*                                                                         *)
(* Numbers: a cosine similarity dot/(|a||b|) is kept exactly, as the       *)
(* fraction sign(dot)*dot^2 / (|a|^2 |b|^2); x |-> sign(x)*x^2 is strictly *)
(* increasing, so every comparison of two similarities is the comparison   *)
(* of the real cosines.  Vectors have integer components (the cosine does  *)
(* not change when a vector is scaled, so [0.9, 0.1] is <<9, 1>>).         *)
(***************************************************************************)
EXTENDS Integers, Sequences, FiniteSets, TLC

VARIABLES
  \* one call of findRelevantSections (SpecRank)
  rkImpl,        \* "stream": the streaming handler's ranker; "legacy": route.ts's
  rkCorpus,      \* the value loadConstitutionEmbeddings returned
  rkQuery,       \* what getQueryEmbedding returns when it is called
  rkTopK,        \* the topK argument
  rkPc,          \* "call" before the call, "done" after
  rkResult       \* the call's result

rankVars == <<rkImpl, rkCorpus, rkQuery, rkTopK, rkPc, rkResult>>

VARIABLES
  \* the server process (Spec)
  route,             \* which handler serves /api/chat: "stream" or "legacy" (route.ts)
  apiKey,            \* process.env.OPENAI_API_KEY is set
  artifact,          \* public/constitution_embeddings.json
  constitutionData,  \* the module-level cache; NullValue is null
  fileReads,         \* how many times the artifact has been read
  req                \* the requests, by number

serverVars == <<route, apiKey, artifact, constitutionData, fileReads, req>>

VARIABLES
  \* the chat page (SpecClient, SpecStream)
  chats,                      \* the chats state
  stored,                     \* localStorage 'askaussie-chats'
  currentChatId,
  isLoading,
  abortController,            \* the call whose controller the state holds, or Null
  pendingAssistantMessageId,
  now,                        \* Date.now()
  calls                       \* the sendMessage calls made so far, in order

clientVars == <<chats, stored, currentChatId, isLoading, abortController,
                pendingAssistantMessageId, now, calls>>

VARIABLES
  \* one call of cosineSimilarity (SpecCosine)
  csA, csB,      \* the arguments
  csPc,          \* "call" before the call, "done" after
  csResult       \* the number returned

cosineVars == <<csA, csB, csPc, csResult>>

vars == <<rankVars, serverVars, clientVars, cosineVars>>
notRank == <<serverVars, clientVars, cosineVars>>
notServer == <<rankVars, clientVars, cosineVars>>
notClient == <<rankVars, serverVars, cosineVars>>
notCosine == <<rankVars, serverVars, clientVars>>

\* ------------------------------------------------------------------ bounds
MaxSections == 3
MaxK == 3
MaxRequests == 2
MaxClock == 4
MaxDeltas == 2
MaxDim == 2

\* .slice(-10) of route.ts
HistoryWindow == 10

\* default value of findRelevantSections' topK parameter
DefaultTopK == 3

\* The significant bits of a number.  The code's numbers are IEEE 754 doubles
\* (53 bits, every operation rounded to nearest, ties to even); the model
\* rounds in the same way and keeps 13 bits, which gives the same results as
\* doubles do on whether cosineSimilarity(a, a) is 1 for the vectors of
\* SpecCosine.
FloatBits == 13

\* ------------------------------------------------------------------ values
\* Embedding vectors a corpus section may carry (2-dimensional, plus one of
\* another dimension).
SectionVectors ==
  { <<1, 0>>, <<0, 1>>, <<1, 1>>, <<-1, 0>>, <<0, 0>>, <<1>> }

\* What embed() may answer for a query; getQueryEmbedding turns a failed call
\* into the empty vector.
QueryVectors ==
  { <<9, 1>>, <<1, 1>>, <<-1, 1>>, <<0, 0>>, <<1, 0>>, <<1>> }

\* Section labels, as character sequences; <<>> is an absent (or empty) label.
\* "U+00A7" stands for the one non-ASCII character of the corpus, the section sign.
Labels == { <<>>, <<"5", "1">>, <<"U+00A7", "7">> }

\* Text is a sequence of tokens (characters, or whole fixed phrases); the empty
\* sequence is the empty string and also stands for an absent optional field,
\* which the code treats alike (both are falsy).
\* A section as JSON.parse yields it.  kind = "null" is a JSON null element;
\* hasEmb = FALSE is a section without an "embedding" key.
FullSection(lbl, chap, prt, cont, hasE, e) ==
  [kind |-> "sec", section |-> lbl, chapter |-> chap, part |-> prt, content |-> cont,
   hasEmb |-> hasE, embedding |-> e]

Section(lbl, hasE, e) == FullSection(lbl, <<>>, <<>>, <<"text">>, hasE, e)

NullSection ==
  [kind |-> "null", section |-> <<>>, chapter |-> <<>>, part |-> <<>>, content |-> <<>>,
   hasEmb |-> FALSE, embedding |-> <<>>]

\* ------------------------------------------------------------------ ranker
RECURSIVE SumProd(_, _, _)
SumProd(a, b, i) ==
  IF i > Len(a) THEN 0 ELSE a[i] * b[i] + SumProd(a, b, i + 1)

Zero == [num |-> 0, den |-> 1]

\* cosineSimilarity(a, b) with the three early "return 0"
cosineSimilarity(a, b) ==
  IF Len(a) # Len(b) THEN Zero
  ELSE LET dotProduct == SumProd(a, b, 1)
           magA2 == SumProd(a, a, 1)
           magB2 == SumProd(b, b, 1)
       IN IF magA2 = 0 \/ magB2 = 0 THEN Zero
          ELSE [num |-> (IF dotProduct < 0 THEN -1 ELSE 1) * dotProduct * dotProduct,
                den |-> magA2 * magB2]

\* x >= y on similarities
SimGeq(x, y) == x.num * y.den >= y.num * x.den

\* x > y on similarities
SimGt(x, y) == x.num * y.den > y.num * x.den

\* .filter(section => !!section.embedding && section.embedding.length > 0):
\* the indexes kept, in corpus order
RECURSIVE FilterEmbedded(_, _)
FilterEmbedded(all, i) ==
  IF i > Len(all) THEN <<>>
  ELSE (IF all[i].hasEmb /\ Len(all[i].embedding) > 0 THEN <<i>> ELSE <<>>)
       \o FilterEmbedded(all, i + 1)

\* .map(section => ({...section, similarity: cosineSimilarity(q, section.embedding)}))
\* idx is the section's place in the corpus (kept to tell equal sections apart)
Scored(all, q, i) ==
  [idx |-> i, section |-> all[i].section, chapter |-> all[i].chapter,
   part |-> all[i].part, content |-> all[i].content, embedding |-> all[i].embedding,
   similarity |-> cosineSimilarity(q, all[i].embedding)]

\* a comparator with its operands swapped, (a, b) => a.similarity - b.similarity
RECURSIVE InsertSortedAscending(_, _)
InsertSortedAscending(sorted, x) ==
  IF sorted = <<>> THEN <<x>>
  ELSE IF SimGt(sorted[Len(sorted)].similarity, x.similarity)
       THEN Append(InsertSortedAscending(SubSeq(sorted, 1, Len(sorted) - 1), x),
                   sorted[Len(sorted)])
       ELSE Append(sorted, x)

\* a sort that is not stable: an element goes before the elements it ties with
RECURSIVE InsertSortedTiesFirst(_, _)
InsertSortedTiesFirst(sorted, x) ==
  IF sorted = <<>> THEN <<x>>
  ELSE IF SimGeq(x.similarity, sorted[Len(sorted)].similarity)
       THEN Append(InsertSortedTiesFirst(SubSeq(sorted, 1, Len(sorted) - 1), x),
                   sorted[Len(sorted)])
       ELSE Append(sorted, x)

\* Array.prototype.sort((a, b) => b.similarity - a.similarity): the sort is
\* stable, so an element goes after every element that does not compare below it
RECURSIVE InsertSorted(_, _)
InsertSorted(sorted, x) ==
  IF sorted = <<>> THEN <<x>>
  ELSE IF SimGt(x.similarity, sorted[Len(sorted)].similarity)
       THEN Append(InsertSorted(SubSeq(sorted, 1, Len(sorted) - 1), x), sorted[Len(sorted)])
       ELSE Append(sorted, x)

RECURSIVE SortBySimilarity(_)
SortBySimilarity(s) ==
  IF s = <<>> THEN <<>>
  ELSE InsertSorted(SortBySimilarity(SubSeq(s, 1, Len(s) - 1)), s[Len(s)])

\* .slice(0, topK) for topK >= 0
Slice(s, k) == SubSeq(s, 1, IF k < Len(s) THEN k ELSE Len(s))

\* lines 100-108 of findRelevantSections
RankSections(all, q, topK) ==
  LET kept == FilterEmbedded(all, 1)
      scored == [j \in 1..Len(kept) |-> Scored(all, q, kept[j])]
  IN Slice(SortBySimilarity(scored), topK)

\* What loadConstitutionEmbeddings hands to its caller: the value JSON.parse
\* gave (an array, null, or an object that is no array), or [] after a failure.
ArrayValue(secs) == [kind |-> "array", secs |-> secs]
NullValue == [kind |-> "null", secs |-> <<>>]
ObjectValue == [kind |-> "object", secs |-> <<>>]

\* allSections.length: reading a property of null throws a TypeError
LengthThrows(all) == all.kind = "null"

\* !allSections.length || !allSections[0]?.embedding   (line 88)
\* An object that is no array has no length; [] is truthy, so a first section
\* with an empty embedding passes this test.
NoEmbeddingsLoaded(all) ==
  \/ all.kind = "object"
  \/ Len(all.secs) = 0
  \/ all.secs[1].kind = "null"
  \/ ~all.secs[1].hasEmb

\* the filter callback reads section.embedding: a null element throws
FilterThrows(all) == \E i \in 1..Len(all.secs) : all.secs[i].kind = "null"

\* The result of a call: secs is what the promise resolves to, threw says it
\* rejected instead, embedCalled says getQueryEmbedding was called.
Returned(secs, called) == [threw |-> FALSE, secs |-> secs, embedCalled |-> called]
Thrown(called) == [threw |-> TRUE, secs |-> <<>>, embedCalled |-> called]

\* a ranker that falls back to the first topK sections when the query
\* embedding is empty, instead of returning []
findRelevantSectionsFallback(all, queryEmbedding, topK) ==
  IF LengthThrows(all) THEN Thrown(FALSE)
  ELSE IF NoEmbeddingsLoaded(all) THEN Returned(<<>>, FALSE)
  ELSE IF Len(queryEmbedding) = 0
       THEN Returned([j \in 1..Len(Slice(all.secs, topK)) |->
                        Scored(all.secs, <<0>>, j)], TRUE)
  ELSE IF FilterThrows(all) THEN Thrown(TRUE)
  ELSE Returned(RankSections(all.secs, queryEmbedding, topK), TRUE)

\* findRelevantSections of the streaming handler, given what the load and the
\* embedding call answer (queryEmbedding = <<>> is the failed call)
findRelevantSections(all, queryEmbedding, topK) ==
  IF LengthThrows(all) THEN Thrown(FALSE)
  ELSE IF NoEmbeddingsLoaded(all) THEN Returned(<<>>, FALSE)
  ELSE IF Len(queryEmbedding) = 0 THEN Returned(<<>>, TRUE)
  ELSE IF FilterThrows(all) THEN Thrown(TRUE)
  ELSE Returned(RankSections(all.secs, queryEmbedding, topK), TRUE)

\* a ranker that sorts the array it was given: allSections.sort(...) without
\* the .filter and .map that make new arrays
AllSectionsAfterFindInPlace(all, queryEmbedding, topK) ==
  IF LengthThrows(all) \/ NoEmbeddingsLoaded(all) \/ Len(queryEmbedding) = 0
     \/ FilterThrows(all)
  THEN all
  ELSE LET scored == [j \in 1..Len(all.secs) |->
                        [sec |-> all.secs[j],
                         similarity |-> cosineSimilarity(queryEmbedding,
                                                         all.secs[j].embedding)]]
           sorted == SortBySimilarity(scored)
       IN ArrayValue([j \in 1..Len(sorted) |-> sorted[j].sec])

\* a ranker that cuts the array it was given down to the top K:
\* allSections.splice(topK) in place of .slice(0, topK) on a copy
AllSectionsAfterFindSpliced(all, queryEmbedding, topK) ==
  IF LengthThrows(all) \/ NoEmbeddingsLoaded(all) \/ Len(queryEmbedding) = 0
     \/ FilterThrows(all)
  THEN all
  ELSE ArrayValue(Slice(all.secs, topK))

\* The array findRelevantSections was given (allSections), after the call.
\* Lines 88-98 only read it.  In lines 100-110 .filter returns a new array and
\* .map new objects ({...section, similarity}), so .sort, which sorts in place,
\* reorders the new array, and .slice copies: allSections and its sections are
\* as they were.
AllSectionsAfterFind(all, queryEmbedding, topK) == all

\* constitutionData.slice(0, topK).map(section => ({...section, similarity: 0}))
\* (spreading null gives an object without fields)
FallbackSections(secs, topK) ==
  LET cut == Slice(secs, topK)
  IN [j \in 1..Len(cut) |->
        [idx |-> j, section |-> cut[j].section, chapter |-> cut[j].chapter,
         part |-> cut[j].part, content |-> cut[j].content,
         embedding |-> cut[j].embedding, similarity |-> Zero]]

\* findRelevantSections of route.ts: both early returns fall back to the first
\* topK sections; an object that is no array has no slice method
findRelevantSectionsLegacy(all, queryEmbedding, topK) ==
  IF LengthThrows(all) THEN Thrown(FALSE)
  ELSE IF NoEmbeddingsLoaded(all)
       THEN (IF all.kind = "object" THEN Thrown(FALSE)
             ELSE Returned(FallbackSections(all.secs, topK), FALSE))
  ELSE IF Len(queryEmbedding) = 0 THEN Returned(FallbackSections(all.secs, topK), TRUE)
  ELSE IF FilterThrows(all) THEN Thrown(TRUE)
  ELSE Returned(RankSections(all.secs, queryEmbedding, topK), TRUE)

\* ------------------------------------------------- cosineSimilarity, rounded
\* cosineSimilarity with the rounding of its operations.  A number is zero, NaN,
\* or sign * m * 2^e with 2^(FloatBits-1) <= m < 2^FloatBits.  The sums of
\* products are small integers here, which numbers hold exactly; Math.sqrt, the
\* product of the magnitudes and the quotient are rounded.
RECURSIVE Pow2(_)
Pow2(k) == IF k = 0 THEN 1 ELSE 2 * Pow2(k - 1)

FloatZero == [kind |-> "zero", sign |-> 1, m |-> 0, e |-> 0]
FloatNaN == [kind |-> "nan", sign |-> 1, m |-> 0, e |-> 0]
FloatNum(sign, m, e) == [kind |-> "num", sign |-> sign, m |-> m, e |-> e]
FloatOne == FloatNum(1, Pow2(FloatBits - 1), 1 - FloatBits)

\* num / den * 2^e for integers num, den > 0, rounded to nearest, ties to even
RECURSIVE RoundRatio(_, _, _)
RoundRatio(num, den, e) ==
  IF num >= den * Pow2(FloatBits) THEN RoundRatio(num, den * 2, e + 1)
  ELSE IF num < den * Pow2(FloatBits - 1) THEN RoundRatio(num * 2, den, e - 1)
  ELSE LET q == num \div den
           r == num % den
           up == 2 * r > den \/ (2 * r = den /\ q % 2 = 1)
           m == IF up THEN q + 1 ELSE q
       IN IF m = Pow2(FloatBits) THEN FloatNum(1, Pow2(FloatBits - 1), e + 1)
          ELSE FloatNum(1, m, e)

\* the integer part of the square root of n, searched between lo and hi
RECURSIVE ISqrt(_, _, _)
ISqrt(n, lo, hi) ==
  IF lo = hi THEN lo
  ELSE LET mid == (lo + hi + 1) \div 2
       IN IF mid * mid <= n THEN ISqrt(n, mid, hi) ELSE ISqrt(n, lo, mid - 1)

\* n * 4^k, with k the least one that gives the root FloatBits bits
RECURSIVE ScaleForSqrt(_, _)
ScaleForSqrt(n, k) ==
  IF n >= Pow2(2 * FloatBits - 2) THEN [n |-> n, k |-> k] ELSE ScaleForSqrt(4 * n, k + 1)

\* Math.sqrt(n) for an integer n >= 0: the root, correctly rounded
FloatSqrt(n) ==
  IF n = 0 THEN FloatZero
  ELSE LET scaled == ScaleForSqrt(n, 0)
           root == ISqrt(scaled.n, 0, Pow2(FloatBits))
           m == IF scaled.n > root * root + root THEN root + 1 ELSE root
       IN IF m = Pow2(FloatBits) THEN FloatNum(1, Pow2(FloatBits - 1), 1 - scaled.k)
          ELSE FloatNum(1, m, -scaled.k)

\* x * y for positive numbers
FloatMul(x, y) == RoundRatio(x.m * y.m, 1, x.e + y.e)

\* n / y for an integer n and a positive number y
FloatDiv(n, y) ==
  IF n = 0 THEN FloatZero
  ELSE LET abs == IF n < 0 THEN -n ELSE n
           q == RoundRatio(abs, y.m, -y.e)
       IN FloatNum(IF n < 0 THEN -1 ELSE 1, q.m, q.e)

\* a version that divides by the first magnitude twice
cosineSimilarityFloatOneSided(a, b) ==
  IF Len(a) # Len(b) THEN FloatZero
  ELSE LET dotProduct == SumProd(a, b, 1)
           magnitudeA == FloatSqrt(SumProd(a, a, 1))
           magnitudeB == FloatSqrt(SumProd(b, b, 1))
       IN IF magnitudeA = FloatZero \/ magnitudeB = FloatZero THEN FloatZero
          ELSE FloatDiv(dotProduct, FloatMul(magnitudeA, magnitudeA))

\* a version without the test of line 65: 0 / 0 is NaN
cosineSimilarityFloatUnguarded(a, b) ==
  IF Len(a) # Len(b) THEN FloatZero
  ELSE LET dotProduct == SumProd(a, b, 1)
           magnitudeA == FloatSqrt(SumProd(a, a, 1))
           magnitudeB == FloatSqrt(SumProd(b, b, 1))
       IN IF magnitudeA = FloatZero \/ magnitudeB = FloatZero THEN FloatNaN
          ELSE FloatDiv(dotProduct, FloatMul(magnitudeA, magnitudeB))

\* cosineSimilarity(a, b), lines 58-67, on arrays of numbers
cosineSimilarityFloat(a, b) ==
  IF Len(a) # Len(b) THEN FloatZero
  ELSE LET dotProduct == SumProd(a, b, 1)
           magnitudeA == FloatSqrt(SumProd(a, a, 1))
           magnitudeB == FloatSqrt(SumProd(b, b, 1))
       IN IF magnitudeA = FloatZero \/ magnitudeB = FloatZero THEN FloatZero
          ELSE FloatDiv(dotProduct, FloatMul(magnitudeA, magnitudeB))

\* ------------------------------------------------------------------ prompt
\* pieces.join(sep) on texts
RECURSIVE Join(_, _)
Join(pieces, sep) ==
  IF pieces = <<>> THEN <<>>
  ELSE IF Len(pieces) = 1 THEN pieces[1]
  ELSE pieces[1] \o sep \o Join(Tail(pieces), sep)

\* one section rendered for the prompt: the labelled parts that are present,
\* joined by newlines   (lines 138-145)
RenderSection(sec) ==
  LET parts ==
        (IF sec.section # <<>> THEN << <<"Section: ">> \o sec.section >> ELSE <<>>)
        \o (IF sec.chapter # <<>> THEN << <<"Chapter: ">> \o sec.chapter >> ELSE <<>>)
        \o (IF sec.part # <<>> THEN << <<"Part: ">> \o sec.part >> ELSE <<>>)
        \o (IF sec.content # <<>> THEN << <<"Content: ">> \o sec.content >> ELSE <<>>)
  IN Join(parts, <<"\n">>)

\* const context = relevantSections.map(...).join('\n\n---\n\n')
Context(relevant) ==
  Join([j \in 1..Len(relevant) |-> RenderSection(relevant[j])], <<"\n\n---\n\n">>)

IsAscii(ch) == ch # "U+00A7"

\* String(s).replace(/[^\x00-\x7F]/g, '')
RECURSIVE StripNonAscii(_)
StripNonAscii(t) ==
  IF t = <<>> THEN <<>>
  ELSE (IF IsAscii(Head(t)) THEN <<Head(t)>> ELSE <<>>) \o StripNonAscii(Tail(t))

\* .filter(Boolean) on texts: the empty string and undefined are dropped
RECURSIVE FilterBoolean(_)
FilterBoolean(ts) ==
  IF ts = <<>> THEN <<>>
  ELSE (IF Head(ts) # <<>> THEN <<Head(ts)>> ELSE <<>>) \o FilterBoolean(Tail(ts))

\* section numbers without the sanitizing step
SectionNumbersUnsanitized(relevant) ==
  Join(FilterBoolean([j \in 1..Len(relevant) |-> relevant[j].section]), <<",", " ">>)

\* relevantSections.map(s => s.section).filter(Boolean).map(strip).join(', ')
SectionNumbers(relevant) ==
  LET labels == FilterBoolean([j \in 1..Len(relevant) |-> relevant[j].section])
  IN Join([j \in 1..Len(labels) |-> StripNonAscii(labels[j])], <<",", " ">>)

\* route.ts does not sanitize: .map(s => s.section).filter(Boolean).join(', ')
SectionNumbersLegacy(relevant) ==
  Join(FilterBoolean([j \in 1..Len(relevant) |-> relevant[j].section]), <<",", " ">>)

\* a prompt that writes the details block whatever the context is
SystemPromptAlwaysDetails(sectionNumbers, context) ==
  <<"You are AskAussie ...", "Relevant constitutional sections for this query: ">>
  \o sectionNumbers \o <<"\n">>
  \o <<"Details:\n">> \o context
  \o <<"\n", "Please provide a helpful, accurate response ...">>

\* the system prompt's text: the fixed instructions, the section numbers, the
\* details when context is a non-empty string, the closing request
SystemPrompt(sectionNumbers, context) ==
  <<"You are AskAussie ...", "Relevant constitutional sections for this query: ">>
  \o sectionNumbers \o <<"\n">>
  \o (IF context # <<>> THEN <<"Details:\n">> \o context ELSE <<>>)
  \o <<"\n", "Please provide a helpful, accurate response ...">>

\* a chat message as the client sends it (timestamps are left out); ids are the
\* clock readings they are made from, 0 stands for an object without an id
Msg(id, role, content) == [id |-> id, role |-> role, content |-> content]

\* { role: "system", content: systemPrompt }: the object has no id
SystemMessage(text) == Msg(0, "system", text)

\* a builder that adds the latest user turn again after the history
ConversationMessagesReAdd(systemPrompt, messages) ==
  <<SystemMessage(systemPrompt)>> \o messages \o <<messages[Len(messages)]>>

\* [{ role: "system", content: systemPrompt }, ...messages]   (lines 176-179)
ConversationMessages(systemPrompt, messages) ==
  <<SystemMessage(systemPrompt)>> \o messages

\* ------------------------------------------------------------ stream codec
\* The response body is a sequence of characters; a text is a sequence of
\* characters too.  "\n" is the line feed, "\"" the quote, "\\" the backslash.

\* JSON.stringify of one character inside a string literal
EscapeChar(ch) ==
  IF ch = "\n" THEN <<"\\", "n">>
  ELSE IF ch = "\"" THEN <<"\\", "\"">>
  ELSE IF ch = "\\" THEN <<"\\", "\\">>
  ELSE <<ch>>

RECURSIVE EscapeText(_)
EscapeText(t) == IF t = <<>> THEN <<>> ELSE EscapeChar(Head(t)) \o EscapeText(Tail(t))

\* JSON.stringify(text)
JsonStringify(t) == <<"\"">> \o EscapeText(t) \o <<"\"">>

\* the characters between the quotes of a string literal, decoded; ok = FALSE
\* when they are no valid string body (a bare quote, line feed or backslash)
RECURSIVE UnescapeText(_)
UnescapeText(cs) ==
  IF cs = <<>> THEN [ok |-> TRUE, text |-> <<>>]
  ELSE IF Head(cs) = "\\"
       THEN IF Len(cs) < 2 \/ cs[2] \notin {"n", "\"", "\\"}
            THEN [ok |-> FALSE, text |-> <<>>]
            ELSE LET rest == UnescapeText(SubSeq(cs, 3, Len(cs)))
                     ch == IF cs[2] = "n" THEN "\n" ELSE cs[2]
                 IN [ok |-> rest.ok, text |-> <<ch>> \o rest.text]
       ELSE IF Head(cs) \in {"\"", "\n"} THEN [ok |-> FALSE, text |-> <<>>]
       ELSE LET rest == UnescapeText(Tail(cs))
            IN [ok |-> rest.ok, text |-> <<Head(cs)>> \o rest.text]

\* JSON.parse(payload) for the payloads of text frames, which are string
\* literals; ok = FALSE is the SyntaxError the read loop catches and logs
JsonParse(cs) ==
  IF Len(cs) < 2 \/ cs[1] # "\"" \/ cs[Len(cs)] # "\"" THEN [ok |-> FALSE, text |-> <<>>]
  ELSE UnescapeText(SubSeq(cs, 2, Len(cs) - 1))

\* one frame of the data stream protocol: tag, ':', payload, line feed
Frame(tag, payload) == <<tag, ":">> \o payload \o <<"\n">>

\* the frame of one text delta, 0:"<text>"
TextFrame(t) == Frame("0", JsonStringify(t))

RECURSIVE TextFrames(_)
TextFrames(deltas) ==
  IF deltas = <<>> THEN <<>> ELSE TextFrame(Head(deltas)) \o TextFrames(Tail(deltas))

\* buffer.split('\n'): the pieces between line feeds, the last one being what
\* follows the last line feed (possibly empty)
RECURSIVE Split(_, _)
Split(cs, piece) ==
  IF cs = <<>> THEN <<piece>>
  ELSE IF Head(cs) = "\n" THEN <<piece>> \o Split(Tail(cs), <<>>)
  ELSE Split(Tail(cs), Append(piece, Head(cs)))

\* a loop that puts each decoded text in front of what it has
RECURSIVE AppendLinesReversed(_, _)
AppendLinesReversed(lines, fullResponse) ==
  IF lines = <<>> THEN fullResponse
  ELSE LET line == Head(lines)
           parsed == JsonParse(SubSeq(line, 3, Len(line)))
           next == IF Len(line) >= 2 /\ line[1] = "0" /\ line[2] = ":" /\ parsed.ok
                   THEN parsed.text \o fullResponse
                   ELSE fullResponse
       IN AppendLinesReversed(Tail(lines), next)

\* the for loop over the complete lines (lines 292-303): a line that starts
\* with 0: is parsed and appended, a parse error is skipped, other lines are
\* ignored
RECURSIVE AppendLines(_, _)
AppendLines(lines, fullResponse) ==
  IF lines = <<>> THEN fullResponse
  ELSE LET line == Head(lines)
           parsed == JsonParse(SubSeq(line, 3, Len(line)))
           next == IF Len(line) >= 2 /\ line[1] = "0" /\ line[2] = ":" /\ parsed.ok
                   THEN fullResponse \o parsed.text
                   ELSE fullResponse
       IN AppendLines(Tail(lines), next)

\* a loop that handles the last piece too, instead of keeping it back
ReadLoopTurnNoPop(buffer, fullResponse, chunk) ==
  LET pieces == Split(buffer \o chunk, <<>>)
  IN [buffer |-> pieces[Len(pieces)],
      fullResponse |-> AppendLines(pieces, fullResponse)]

\* a loop that does not keep the unfinished last line for the next read
ReadLoopTurnNoCarry(buffer, fullResponse, chunk) ==
  LET pieces == Split(chunk, <<>>)
  IN [buffer |-> <<>>,
      fullResponse |-> AppendLines(SubSeq(pieces, 1, Len(pieces) - 1), fullResponse)]

\* one turn of the read loop on a decoded chunk (lines 286-303): the new buffer
\* and the new fullResponse
ReadLoopTurn(buffer, fullResponse, chunk) ==
  LET pieces == Split(buffer \o chunk, <<>>)
  IN [buffer |-> pieces[Len(pieces)],
      fullResponse |-> AppendLines(SubSeq(pieces, 1, Len(pieces) - 1), fullResponse)]

\* ------------------------------------------------------------------ server
\* The artifact: absent, not JSON, or JSON text with the value it parses to.
Missing == [kind |-> "missing", value |-> NullValue]
BadJson == [kind |-> "badjson", value |-> NullValue]
JsonFile(v) == [kind |-> "json", value |-> v]

S51 == FullSection(<<"5", "1">>, <<"I">>, <<>>, <<"powers">>, TRUE, <<1, 0>>)
S7 == FullSection(<<"U+00A7", "7">>, <<>>, <<"V">>, <<"review">>, TRUE, <<0, 1>>)
SNoLabel == FullSection(<<>>, <<>>, <<>>, <<"senate">>, TRUE, <<1, 1>>)
SOpposite == FullSection(<<"9">>, <<>>, <<>>, <<>>, TRUE, <<-1, 0>>)
SUnembedded == FullSection(<<"1">>, <<>>, <<>>, <<"title">>, FALSE, <<>>)

Artifacts ==
  { Missing, BadJson, JsonFile(NullValue), JsonFile(ObjectValue),
    JsonFile(ArrayValue(<<>>)),
    JsonFile(ArrayValue(<<SUnembedded, S51>>)),
    JsonFile(ArrayValue(<<S51, S7>>)),
    JsonFile(ArrayValue(<<S51, NullSection>>)),
    JsonFile(ArrayValue(<<SOpposite, SUnembedded, S7, SNoLabel, S51>>)) }

\* what embed() answers in a request; <<>> is a failed call
EmbedAnswers == { <<>>, <<9, 1>>, <<-1, 1>> }

\* Request bodies: text that is no JSON; { messages } as the chat page sends
\* it; { message, chatHistory } as route.ts reads it.
Undefined == <<"undefined">>
MalformedBody ==
  [kind |-> "malformed", messages |-> <<>>, message |-> Undefined, chatHistory |-> <<>>]
MessagesBody(ms) ==
  [kind |-> "messages", messages |-> ms, message |-> Undefined, chatHistory |-> <<>>]
LegacyBody(m, h) ==
  [kind |-> "legacy", messages |-> <<>>, message |-> m, chatHistory |-> h]

Q1 == Msg(1, "user", <<"q1">>)
A1 == Msg(2, "assistant", <<"a1">>)
Q2 == Msg(3, "user", <<"q2">>)

Bodies ==
  { MalformedBody, MessagesBody(<<>>), MessagesBody(<<Q1, A1, Q2>>),
    LegacyBody(<<"q2">>, <<Q1, A1>>) }

NoResponse == [status |-> 0, kind |-> "none", error |-> "", hasHeader |-> FALSE, header |-> <<>>]
ErrorResponse(status, text) ==
  [status |-> status, kind |-> "json", error |-> text, hasHeader |-> FALSE, header |-> <<>>]
NoMessageError == ErrorResponse(400, "No message provided")
ConfigError ==
  ErrorResponse(500, "OpenAI API key not configured. Please check your .env.local file.")
ConfigErrorLegacy ==
  ErrorResponse(500, "OpenAI API key not configured. Please add OPENAI_API_KEY to your environment variables.")
GenericError == ErrorResponse(500, "Internal server error. Please try again.")
\* result.toDataStreamResponse({ headers: { 'x-relevant-sections': sectionNumbers } })
StreamResponse(sectionNumbers) ==
  [status |-> 200, kind |-> "stream", error |-> "", hasHeader |-> TRUE, header |-> sectionNumbers]
\* NextResponse.json({ response, relevantSections, sectionNumbers })
JsonResponse == [status |-> 200, kind |-> "json", error |-> "", hasHeader |-> FALSE, header |-> <<>>]

\* A thrown value: an Error's name, message and stack, and the status and code
\* a provider error carries.  The texts stand for the real ones.
NoError == [name |-> "", message |-> "", stack |-> "", status |-> 0, code |-> ""]
ThrownError(name, message, status, code) ==
  [name |-> name, message |-> message, stack |-> name \o ": " \o message \o " at POST",
   status |-> status, code |-> code]
\* req.json() on a body that is no JSON
BodySyntaxError == ThrownError("SyntaxError", "Unexpected token in JSON at position 0", 0, "")
\* messages[messages.length - 1] when the body has no messages field
BodyTypeError ==
  ThrownError("TypeError", "Cannot read properties of undefined (reading 'length')", 0, "")
\* a corpus value that is null, has a null element, or has no slice method
CorpusTypeError ==
  ThrownError("TypeError", "Cannot read properties of null (reading 'length')", 0, "")
\* the remote model's call rejected
ProviderError ==
  ThrownError("APIError", "401 Incorrect API key provided: sk-proj-...", 401, "invalid_api_key")

\* every text of a thrown value
ErrorDetails(error) ==
  { error.name, error.message, error.stack, error.code } \ {""}

\* a catch that answers with the error's own message
CatchResponseLeaky(error) == ErrorResponse(500, error.message)

\* the handler's catch (lines 197-225): the error is logged, the response is the
\* fixed message
CatchResponse(error) == GenericError

\* the catch of route.ts (lines 190-196)
CatchResponseLegacy(error) == GenericError

\* A request.  thrown is the value the handler's catch received, if it ran.
\* events is the order in which its steps happened: "load" /
\* "loadFailed" (the corpus load returned a parsed or cached value / returned []
\* from its catch), "embedCall" / "embed" (the embedding call was issued /
\* returned), "rank" (findRelevantSections returned), "prompt" (the message list
\* was built), "complete" (the completion call was issued).
IdleRequest ==
  [pc |-> "idle", body |-> MalformedBody, all |-> ArrayValue(<<>>),
   queryEmbedding |-> <<>>, relevant |-> <<>>, sectionNumbers |-> <<>>, sent |-> <<>>,
   response |-> NoResponse, events |-> <<>>, thrown |-> NoError]

Has(rec, tag) == \E i \in 1..Len(rec.events) : rec.events[i] = tag

Respond(rec, response) == [rec EXCEPT !.pc = "responded", !.response = response]

\* an error reaches the catch of the streaming handler / of route.ts
Catch(rec, error) == Respond([rec EXCEPT !.thrown = error], CatchResponse(error))
CatchLegacy(rec, error) == Respond([rec EXCEPT !.thrown = error], CatchResponseLegacy(error))

\* a load without the cache test: the cached value is never used
NeverCached(v) == FALSE

\* if (constitutionData): null is falsy, every array and object is truthy
Truthy(v) == v.kind # "null"

\* messages[messages.length - 1]?.content, and the test !latestMessage
LatestMessage(messages) ==
  IF messages = <<>> THEN <<>> ELSE messages[Len(messages)].content

\* lines 136-187: context, sectionNumbers, systemPrompt, conversationMessages
\* and the streamText call
Assemble(rec, relevant) ==
  LET numbers == SectionNumbers(relevant)
  IN [rec EXCEPT !.relevant = relevant,
                 !.sectionNumbers = numbers,
                 !.sent = ConversationMessages(SystemPrompt(numbers, Context(relevant)),
                                               rec.body.messages),
                 !.pc = "completing",
                 !.events = @ \o <<"prompt", "complete">>]

\* findRelevantSections has returned or thrown (line 134); a throw reaches the
\* handler's catch
AfterFind(rec, result) ==
  IF result.threw THEN Catch(rec, CorpusTypeError)
  ELSE Assemble([rec EXCEPT !.events = @ \o <<"rank">>], result.secs)

\* a handler that does not wait for the embedding call: it goes on to build the
\* prompt while the call is in flight
AfterLoadNoAwait(rec, all, ok) ==
  LET loaded == [rec EXCEPT !.all = all,
                            !.events = @ \o <<IF ok THEN "load" ELSE "loadFailed">>]
  IN IF LengthThrows(all) \/ NoEmbeddingsLoaded(all)
     THEN AfterFind(loaded, findRelevantSections(all, <<>>, DefaultTopK))
     ELSE Assemble([loaded EXCEPT !.events = @ \o <<"embedCall">>], <<>>)

\* loadConstitutionEmbeddings has returned all (line 85): lines 88-93
AfterLoad(rec, all, ok) ==
  LET loaded == [rec EXCEPT !.all = all,
                            !.events = @ \o <<IF ok THEN "load" ELSE "loadFailed">>]
  IN IF LengthThrows(all) \/ NoEmbeddingsLoaded(all)
     THEN AfterFind(loaded, findRelevantSections(all, <<>>, DefaultTopK))
     ELSE [loaded EXCEPT !.pc = "embedding", !.events = @ \o <<"embedCall">>]

\* a key test placed after the retrieval instead of before it
KeyPresentAlways(key) == TRUE

\* !process.env.OPENAI_API_KEY negated (line 127)
KeyPresent(key) == key

\* the next request number: requests arrive as 1, 2, ...
NextRequest(r) == req[r].pc = "idle" /\ \A q \in 1..(r - 1) : req[q].pc # "idle"

\* POST of the streaming handler up to its first suspension (lines 114-134,
\* 39-46): the body, the latest message, the API key, the cache
PostBegin(r, body) ==
  /\ route = "stream"
  /\ NextRequest(r)
  /\ LET rec == [req[r] EXCEPT !.body = body]
     IN IF body.kind # "messages"
        THEN /\ req' = [req EXCEPT ![r] =
                  Catch(rec, IF body.kind = "malformed" THEN BodySyntaxError
                             ELSE BodyTypeError)]
             /\ UNCHANGED fileReads
        ELSE IF LatestMessage(body.messages) = <<>>
        THEN /\ req' = [req EXCEPT ![r] = Respond(rec, NoMessageError)]
             /\ UNCHANGED fileReads
        ELSE IF ~KeyPresent(apiKey)
        THEN /\ req' = [req EXCEPT ![r] = Respond(rec, ConfigError)]
             /\ UNCHANGED fileReads
        ELSE IF Truthy(constitutionData)
        THEN /\ req' = [req EXCEPT ![r] = AfterLoad(rec, constitutionData, TRUE)]
             /\ UNCHANGED fileReads
        ELSE /\ req' = [req EXCEPT ![r] = [rec EXCEPT !.pc = "reading"]]
             /\ fileReads' = fileReads + 1
  /\ UNCHANGED <<route, apiKey, artifact, constitutionData, notServer>>

\* a catch that remembers the failure: constitutionData = [] before return []
CacheAfterFailedLoadMemoized(cache) == ArrayValue(<<>>)

\* the cache after the catch of lines 49-54, which returns [] and assigns
\* nothing
CacheAfterFailedLoad(cache) == cache

\* fs.promises.readFile settles (lines 46-54): JSON.parse, the cache, or the
\* catch that returns []
LoadDone(r, readOk) ==
  /\ req[r].pc = "reading"
  /\ readOk => artifact.kind # "missing"
  /\ IF readOk /\ artifact.kind = "json"
     THEN /\ constitutionData' = artifact.value
          /\ req' = [req EXCEPT ![r] = AfterLoad(req[r], artifact.value, TRUE)]
     ELSE /\ constitutionData' = CacheAfterFailedLoad(constitutionData)
          /\ req' = [req EXCEPT ![r] = AfterLoad(req[r], ArrayValue(<<>>), FALSE)]
  /\ UNCHANGED <<route, apiKey, artifact, fileReads, notServer>>

\* embed() settles (lines 70-81, 93-110); answer = <<>> is the caught failure.
\* allSections is the cached array itself when the load returned the cache
\* (lines 40-42, 47-48), so what the call does to allSections it does to the
\* cache.
EmbedDone(r, answer) ==
  /\ route = "stream"
  /\ req[r].pc = "embedding"
  /\ req' = [req EXCEPT ![r] =
       AfterFind([req[r] EXCEPT !.queryEmbedding = answer, !.events = @ \o <<"embed">>],
                 findRelevantSections(req[r].all, answer, DefaultTopK))]
  /\ constitutionData' =
       IF Has(req[r], "load") /\ constitutionData = req[r].all
       THEN AllSectionsAfterFind(req[r].all, answer, DefaultTopK)
       ELSE constitutionData
  /\ UNCHANGED <<route, apiKey, artifact, fileReads, notServer>>

\* streamText settles (lines 182-195): the stream response with the header, or
\* the catch's generic error
CompleteDone(r, ok) ==
  /\ route = "stream"
  /\ req[r].pc = "completing"
  /\ req' = [req EXCEPT ![r] =
       IF ok THEN Respond(req[r], StreamResponse(req[r].sectionNumbers))
       ELSE Catch(req[r], ProviderError)]
  /\ UNCHANGED <<route, apiKey, artifact, constitutionData, fileReads, notServer>>

\* ---------------------------------------------------- server, route.ts
\* .slice(-n)
LastN(s, n) == SubSeq(s, IF Len(s) > n THEN Len(s) - n + 1 ELSE 1, Len(s))

\* (chatHistory || []).slice(-10).map(msg => ({ role: msg.role, content: msg.content }))
ConversationHistory(chatHistory) ==
  LET kept == LastN(chatHistory, HistoryWindow)
  IN [j \in 1..Len(kept) |-> Msg(0, kept[j].role, kept[j].content)]

\* route.ts lines 116-175: context, sectionNumbers, systemPrompt, the message
\* list [system, ...conversationHistory, { role: "user", content: message }]
\* and the completion call
AssembleLegacy(rec, relevant) ==
  LET numbers == SectionNumbersLegacy(relevant)
  IN [rec EXCEPT !.relevant = relevant,
                 !.sectionNumbers = numbers,
                 !.sent = <<SystemMessage(SystemPrompt(numbers, Context(relevant)))>>
                          \o ConversationHistory(rec.body.chatHistory)
                          \o <<Msg(0, "user", rec.body.message)>>,
                 !.pc = "completing",
                 !.events = @ \o <<"prompt", "complete">>]

AfterFindLegacy(rec, result) ==
  IF result.threw THEN CatchLegacy(rec, CorpusTypeError)
  ELSE AssembleLegacy([rec EXCEPT !.events = @ \o <<"rank">>], result.secs)

\* route.ts lines 67-78
AfterLoadLegacy(rec, all, ok) ==
  LET loaded == [rec EXCEPT !.all = all,
                            !.events = @ \o <<IF ok THEN "load" ELSE "loadFailed">>]
  IN IF LengthThrows(all) \/ NoEmbeddingsLoaded(all)
     THEN AfterFindLegacy(loaded, findRelevantSectionsLegacy(all, <<>>, DefaultTopK))
     ELSE [loaded EXCEPT !.pc = "embedding", !.events = @ \o <<"embedCall">>]

\* POST of route.ts up to its first suspension (lines 101-114, 26-37, 66-78):
\* the body, the API key, and loadConstitutionEmbeddings, which reads the file
\* synchronously on every call
LegacyPost(r, body, readOk) ==
  /\ route = "legacy"
  /\ NextRequest(r)
  /\ readOk => artifact.kind # "missing"
  /\ LET rec == [req[r] EXCEPT !.body = body]
     IN IF body.kind = "malformed"
        THEN /\ req' = [req EXCEPT ![r] = CatchLegacy(rec, BodySyntaxError)]
             /\ UNCHANGED fileReads
        ELSE IF ~KeyPresent(apiKey)
        THEN /\ req' = [req EXCEPT ![r] = Respond(rec, ConfigErrorLegacy)]
             /\ UNCHANGED fileReads
        ELSE /\ fileReads' = fileReads + 1
             /\ req' = [req EXCEPT ![r] =
                  IF readOk /\ artifact.kind = "json"
                  THEN AfterLoadLegacy(rec, artifact.value, TRUE)
                  ELSE AfterLoadLegacy(rec, ArrayValue(<<>>), FALSE)]
  /\ UNCHANGED <<route, apiKey, artifact, constitutionData, notServer>>

\* openai.embeddings.create settles (route.ts lines 52-63, 78-97)
LegacyEmbedDone(r, answer) ==
  /\ route = "legacy"
  /\ req[r].pc = "embedding"
  /\ req' = [req EXCEPT ![r] =
       AfterFindLegacy([req[r] EXCEPT !.queryEmbedding = answer,
                                      !.events = @ \o <<"embed">>],
                       findRelevantSectionsLegacy(req[r].all, answer, DefaultTopK))]
  /\ UNCHANGED <<route, apiKey, artifact, constitutionData, fileReads, notServer>>

\* openai.chat.completions.create settles (route.ts lines 166-196)
LegacyCompleteDone(r, ok) ==
  /\ route = "legacy"
  /\ req[r].pc = "completing"
  /\ req' = [req EXCEPT ![r] =
       IF ok THEN Respond(req[r], JsonResponse) ELSE CatchLegacy(req[r], ProviderError)]
  /\ UNCHANGED <<route, apiKey, artifact, constitutionData, fileReads, notServer>>

ServerIdle ==
  /\ route = "stream"
  /\ apiKey = TRUE
  /\ artifact = Missing
  /\ constitutionData = NullValue
  /\ fileReads = 0
  /\ req = [r \in 1..MaxRequests |-> IdleRequest]

InitServer ==
  /\ route \in {"stream", "legacy"}
  /\ apiKey \in BOOLEAN
  /\ artifact \in Artifacts
  /\ constitutionData = NullValue
  /\ fileReads = 0
  /\ req = [r \in 1..MaxRequests |-> IdleRequest]

NextServer ==
  \/ \E r \in 1..MaxRequests, body \in Bodies : PostBegin(r, body)
  \/ \E r \in 1..MaxRequests, readOk \in BOOLEAN : LoadDone(r, readOk)
  \/ \E r \in 1..MaxRequests, answer \in EmbedAnswers : EmbedDone(r, answer)
  \/ \E r \in 1..MaxRequests, ok \in BOOLEAN : CompleteDone(r, ok)
  \/ \E r \in 1..MaxRequests, body \in Bodies, readOk \in BOOLEAN : LegacyPost(r, body, readOk)
  \/ \E r \in 1..MaxRequests, answer \in EmbedAnswers : LegacyEmbedDone(r, answer)
  \/ \E r \in 1..MaxRequests, ok \in BOOLEAN : LegacyCompleteDone(r, ok)

\* ------------------------------------------------------------------ client
\* the sequences over S of length at most n
SeqsUpTo(S, n) == UNION { [1..k -> S] : k \in 0..n }

\* The chat page (page.tsx).  A chat is its id and its messages; title and the
\* Date fields are written but never read by the handlers below and are left
\* out.  Ids are Date.now() readings; 0 stands for null.  localStorage.setItem
\* is taken to succeed (no quota error), and an absent 'askaussie-chats' key is
\* the empty list, which is what the mount effect makes of it.
Null == 0

Chat(id, messages) == [id |-> id, messages |-> messages]

HasChat(cs, chatId) == \E j \in 1..Len(cs) : cs[j].id = chatId

\* chats.map(chat => chat.id === chatId ? {...chat, messages: [...chat.messages, msg]} : chat)
AppendMessage(cs, chatId, msg) ==
  [j \in 1..Len(cs) |->
     IF cs[j].id = chatId THEN [cs[j] EXCEPT !.messages = Append(@, msg)] ELSE cs[j]]

\* an update that puts the chat back when it is no longer in the list
SetContentUpsert(cs, chatId, msgId, content) ==
  IF \E j \in 1..Len(cs) : cs[j].id = chatId
  THEN [j \in 1..Len(cs) |->
          IF cs[j].id = chatId
          THEN [cs[j] EXCEPT !.messages =
                  [k \in 1..Len(@) |->
                     IF @[k].id = msgId THEN [@[k] EXCEPT !.content = content] ELSE @[k]]]
          ELSE cs[j]]
  ELSE <<[id |-> chatId, messages |-> <<[id |-> msgId, role |-> "assistant",
                                         content |-> content]>>]>> \o cs

\* messages.map(msg => msg.id === msgId ? {...msg, content} : msg) in chat chatId
SetContent(cs, chatId, msgId, content) ==
  [j \in 1..Len(cs) |->
     IF cs[j].id = chatId
     THEN [cs[j] EXCEPT !.messages =
             [k \in 1..Len(@) |-> IF @[k].id = msgId THEN [@[k] EXCEPT !.content = content]
                                  ELSE @[k]]]
     ELSE cs[j]]

\* messages.filter(msg => msg.id !== msgId) in chat chatId
RemoveMessage(cs, chatId, msgId) ==
  [j \in 1..Len(cs) |->
     IF cs[j].id = chatId
     THEN [cs[j] EXCEPT !.messages = SelectSeq(@, LAMBDA m : m.id # msgId)]
     ELSE cs[j]]

\* message.trim(): a text of blanks only is empty
RECURSIVE Trim(_)
Trim(t) == IF t = <<>> THEN <<>> ELSE IF Head(t) = " " THEN Trim(Tail(t)) ELSE t

\* What the user may type
Inputs == { <<"q">>, <<" ">> }

\* The texts a text delta of the remote model may carry in SpecStream: plain
\* text, a line feed, a quote, a backslash, and text that looks like a frame tag
DeltaTexts ==
  { <<"a">>, <<"a", "\n", "b">>, <<"\"">>, <<"\\", "n">>, <<"0", ":">> }

RECURSIVE Concat(_)
Concat(texts) == IF texts = <<>> THEN <<>> ELSE Head(texts) \o Concat(Tail(texts))

\* The body of a streamed response for the deltas the remote model produced, in
\* the data stream protocol: a start frame, one text frame per delta in
\* production order, then the finish frames, or an error frame when the remote
\* call failed after these deltas.  Every frame ends with a line feed.
StreamBody(deltas, finished) ==
  Frame("f", <<"{", "}">>) \o TextFrames(deltas)
    \o (IF finished THEN Frame("e", <<"{", "}">>) \o Frame("d", <<"{", "}">>)
        ELSE Frame("3", JsonStringify(<<"e">>)))

\* A sendMessage call at its first await: its closure (targetChatId,
\* newAssistantMessageId, the controller's aborted flag, the messages it sent),
\* the response (the deltas the remote model produced, whether it finished or
\* failed after them, the characters of the body not yet read, the error of a
\* non-2xx response) and the read loop's locals
NewCall(targetChatId, newAssistantMessageId, messages) ==
  [pc |-> "fetch", targetChatId |-> targetChatId,
   newAssistantMessageId |-> newAssistantMessageId,
   aborted |-> FALSE, messages |-> messages, deltas |-> <<>>, finished |-> TRUE,
   body |-> <<>>, error |-> <<>>, buffer |-> <<>>, fullResponse |-> <<>>]

\* the state of a request: Idle until the response arrives, Streaming while the
\* body is read, then the branch of the try/catch that ended it
Phase(call) ==
  CASE call.pc \in {"fetch", "json"} -> "Idle"
    [] call.pc = "read" -> "Streaming"
    [] call.pc = "completed" -> "Completed"
    [] call.pc = "aborted" -> "Aborted"
    [] call.pc = "failed" -> "Failed"

Terminal == {"Completed", "Aborted", "Failed"}

\* a read that delivers data although the controller was aborted
ReadPendingIgnoringAbort(call) == call.pc = "read"

\* await reader.read() is pending and will deliver: the signal is not aborted
ReadPending(call) == call.pc = "read" /\ ~call.aborted

\* a fetch that may resolve again after the call has ended
FetchPendingAnytime(call) == ~call.aborted

\* await fetch(...) is pending and will deliver: the signal is not aborted
FetchPending(call) == call.pc = "fetch" /\ ~call.aborted

\* a handler without the finally block
FinallySkipped == UNCHANGED <<isLoading, pendingAssistantMessageId, abortController>>

\* the finally block (lines 389-393)
Finally ==
  /\ isLoading' = FALSE
  /\ pendingAssistantMessageId' = Null
  /\ abortController' = Null

\* a history "excluding the current user message", as the first comment above
\* line 253 has it
ChatHistoryWithoutLatest(updatedChatsWithUserMessage, targetChatId) ==
  LET messages == (CHOOSE ch \in { updatedChatsWithUserMessage[j] :
                                     j \in 1..Len(updatedChatsWithUserMessage) } :
                     ch.id = targetChatId).messages
  IN SubSeq(messages, 1, Len(messages) - 1)

\* updatedChatsWithUserMessage.find(c => c.id === targetChatId)?.messages || []
\* (line 253); the chat is always found, sendMessage has put it in the list
ChatHistoryForApi(updatedChatsWithUserMessage, targetChatId) ==
  (CHOOSE ch \in { updatedChatsWithUserMessage[j] :
                     j \in 1..Len(updatedChatsWithUserMessage) } :
     ch.id = targetChatId).messages

\* sendMessage up to its first await (lines 173-265); the controller of the
\* c-th call is c
SendMessage(text) ==
  /\ now + 1 <= MaxClock
  /\ Trim(text) # <<>> /\ ~isLoading
  /\ LET targetChatId == IF currentChatId # Null THEN currentChatId ELSE now
         userMessage == Msg(now, "user", text)
         currentChatsList == IF HasChat(chats, targetChatId) THEN chats
                             ELSE <<Chat(targetChatId, <<>>)>> \o chats
         updatedChatsWithUserMessage ==
           AppendMessage(currentChatsList, targetChatId, userMessage)
         newAssistantMessageId == now + 1
         chatHistoryForApi == ChatHistoryForApi(updatedChatsWithUserMessage, targetChatId)
     IN /\ stored' = updatedChatsWithUserMessage
        /\ chats' = AppendMessage(updatedChatsWithUserMessage, targetChatId,
                                  Msg(newAssistantMessageId, "assistant", <<>>))
        /\ currentChatId' = targetChatId
        /\ pendingAssistantMessageId' = newAssistantMessageId
        /\ calls' = Append(calls, NewCall(targetChatId, newAssistantMessageId,
                                          chatHistoryForApi))
  /\ isLoading' = TRUE
  /\ abortController' = Len(calls) + 1
  /\ now' = now + 2
  /\ UNCHANGED notClient

\* stopStreaming (lines 163-170)
StopStreaming ==
  /\ abortController # Null
  /\ calls' = [calls EXCEPT ![abortController].aborted = TRUE]
  /\ abortController' = Null
  /\ isLoading' = FALSE
  /\ pendingAssistantMessageId' = Null
  /\ UNCHANGED <<chats, stored, currentChatId, now, notClient>>

\* createNewChat (lines 139-150)
CreateNewChat ==
  /\ now <= MaxClock
  /\ LET updatedChats == <<Chat(now, <<>>)>> \o chats
     IN /\ chats' = updatedChats
        /\ stored' = updatedChats
  /\ currentChatId' = now
  /\ now' = now + 1
  /\ UNCHANGED <<isLoading, abortController, pendingAssistantMessageId, calls, notClient>>

\* deleteChat (lines 153-160)
DeleteChat(chatId) ==
  /\ HasChat(chats, chatId)
  /\ LET updatedChats == SelectSeq(chats, LAMBDA ch : ch.id # chatId)
     IN /\ chats' = updatedChats
        /\ stored' = updatedChats
        /\ currentChatId' = IF currentChatId = chatId
                            THEN (IF Len(updatedChats) > 0 THEN updatedChats[1].id ELSE Null)
                            ELSE currentChatId
  /\ UNCHANGED <<isLoading, abortController, pendingAssistantMessageId, now, calls, notClient>>

\* the sidebar's setCurrentChatId(chat.id)
SelectChat(chatId) ==
  /\ HasChat(chats, chatId) /\ chatId # currentChatId
  /\ currentChatId' = chatId
  /\ UNCHANGED <<chats, stored, isLoading, abortController, pendingAssistantMessageId,
                 now, calls, notClient>>

\* fetch resolves with a 200 response whose body will carry the given frames
\* (lines 258-281)
FetchOk(c, deltas, finished) ==
  /\ FetchPending(calls[c])
  /\ calls' = [calls EXCEPT ![c].pc = "read", ![c].deltas = deltas,
                            ![c].finished = finished,
                            ![c].body = StreamBody(deltas, finished)]
  /\ UNCHANGED <<chats, stored, currentChatId, isLoading, abortController,
                 pendingAssistantMessageId, now, notClient>>

\* a body whose last text frame lacks its line feed: the start frame and the
\* text frames, cut before the last character
UnterminatedBody(deltas) ==
  LET body == Frame("f", <<"{", "}">>) \o TextFrames(deltas)
  IN SubSeq(body, 1, Len(body) - 1)

\* fetch resolves with a 200 response whose body ends without a line feed
\* (lines 258-281)
FetchOkUnterminated(c, deltas) ==
  /\ FetchPending(calls[c])
  /\ calls' = [calls EXCEPT ![c].pc = "read", ![c].deltas = deltas,
                            ![c].body = UnterminatedBody(deltas)]
  /\ UNCHANGED <<chats, stored, currentChatId, isLoading, abortController,
                 pendingAssistantMessageId, now, notClient>>

\* fetch resolves with a non-2xx response: the handler awaits response.json()
\* (lines 267-268)
FetchNotOk(c, response) ==
  /\ FetchPending(calls[c])
  /\ calls' = [calls EXCEPT ![c].pc = "json", ![c].error = <<response.error>>]
  /\ UNCHANGED <<chats, stored, currentChatId, isLoading, abortController,
                 pendingAssistantMessageId, now, notClient>>

\* the catch's error branch and the finally (lines 363-393)
Fail(c, errorMessageContent) ==
  /\ LET errorChats == SetContent(chats, calls[c].targetChatId,
                                  calls[c].newAssistantMessageId,
                                  <<"Error: ">> \o errorMessageContent)
     IN /\ chats' = errorChats
        /\ stored' = errorChats
  /\ calls' = [calls EXCEPT ![c].pc = "failed"]
  /\ Finally
  /\ UNCHANGED <<currentChatId, now, notClient>>

\* fetch rejects for a reason other than an abort (the network); "TypeError" is
\* the browser's message of that error
FetchRejects(c) ==
  /\ FetchPending(calls[c])
  /\ Fail(c, <<"TypeError">>)

\* response.json() resolves and the handler throws Error(errorData.error)
\* (line 269)
ErrorBodyRead(c) ==
  /\ calls[c].pc = "json" /\ ~calls[c].aborted
  /\ Fail(c, calls[c].error)

\* reader.read() resolves with the next n characters of the body: one turn of
\* the loop and the setChats that shows fullResponse (lines 284-319)
ReadChunk(c, n) ==
  /\ ReadPending(calls[c])
  /\ n \in 1..Len(calls[c].body)
  /\ LET call == calls[c]
         turn == ReadLoopTurn(call.buffer, call.fullResponse, SubSeq(call.body, 1, n))
     IN /\ calls' = [calls EXCEPT ![c].buffer = turn.buffer,
                                  ![c].fullResponse = turn.fullResponse,
                                  ![c].body = SubSeq(call.body, n + 1, Len(call.body))]
        /\ chats' = SetContent(chats, call.targetChatId, call.newAssistantMessageId,
                               turn.fullResponse)
  /\ UNCHANGED <<stored, currentChatId, isLoading, abortController,
                 pendingAssistantMessageId, now, notClient>>

\* reader.read() resolves with done: the last turn of the loop on an empty
\* chunk, the final save and the finally (lines 284-338, 389-393)
ReadDone(c) ==
  /\ ReadPending(calls[c])
  /\ calls[c].body = <<>>
  /\ LET call == calls[c]
         turn == ReadLoopTurn(call.buffer, call.fullResponse, <<>>)
         finalChats == SetContent(chats, call.targetChatId, call.newAssistantMessageId,
                                  turn.fullResponse)
     IN /\ calls' = [calls EXCEPT ![c].buffer = turn.buffer,
                                  ![c].fullResponse = turn.fullResponse,
                                  ![c].pc = "completed"]
        /\ chats' = finalChats
        /\ stored' = finalChats
  /\ Finally
  /\ UNCHANGED <<currentChatId, now, notClient>>

\* reader.read() rejects for a reason other than an abort (the connection broke)
ReadRejects(c) ==
  /\ ReadPending(calls[c])
  /\ Fail(c, <<"TypeError">>)

\* the pending await rejects with an AbortError: the catch's abort branch and
\* the finally (lines 341-362, 389-393).  The rejection is delivered as a step
\* of its own, after the stopStreaming that caused it.
HandleAbort(c) ==
  /\ calls[c].pc \in {"fetch", "json", "read"} /\ calls[c].aborted
  /\ LET updatedChats == RemoveMessage(chats, calls[c].targetChatId,
                                       calls[c].newAssistantMessageId)
     IN /\ chats' = updatedChats
        /\ stored' = updatedChats
  /\ calls' = [calls EXCEPT ![c].pc = "aborted"]
  /\ Finally
  /\ UNCHANGED <<currentChatId, now, notClient>>

\* the page before it is mounted in a given specification
ClientIdle ==
  /\ chats = <<>>
  /\ stored = <<>>
  /\ currentChatId = Null
  /\ isLoading = FALSE
  /\ abortController = Null
  /\ pendingAssistantMessageId = Null
  /\ now = 1
  /\ calls = <<>>

\* the page after its mount effect on an empty localStorage
InitClient == ClientIdle

\* positions of a body at which a frame ends
LineEnds(body) == { n \in 1..Len(body) : body[n] = "\n" }

\* what the server may answer in SpecClient
ClientDeltas == { <<<<"a">>, <<"b">>>> }
ErrorResponses == { GenericError }

ClientSend == \E text \in Inputs : SendMessage(text)
ClientFetchOk ==
  \E c \in DOMAIN calls, deltas \in ClientDeltas, finished \in BOOLEAN :
    FetchOk(c, deltas, finished)
ClientFetchNotOk == \E c \in DOMAIN calls, response \in ErrorResponses : FetchNotOk(c, response)
ClientRead == \E c \in DOMAIN calls : \E n \in LineEnds(calls[c].body) : ReadChunk(c, n)

NextClient ==
  \/ ClientSend
  \/ StopStreaming
  \/ CreateNewChat
  \/ \E chatId \in 1..MaxClock : DeleteChat(chatId)
  \/ \E chatId \in 1..MaxClock : SelectChat(chatId)
  \/ ClientFetchOk
  \/ ClientFetchNotOk
  \/ \E c \in DOMAIN calls : FetchRejects(c)
  \/ \E c \in DOMAIN calls : ErrorBodyRead(c)
  \/ ClientRead
  \/ \E c \in DOMAIN calls : ReadDone(c)
  \/ \E c \in DOMAIN calls : ReadRejects(c)
  \/ \E c \in DOMAIN calls : HandleAbort(c)

\* the requests a behaviour can issue: each sendMessage takes two ticks
MaxCalls == MaxClock \div 2

\* the await of call c settles: the fetch resolves or rejects, the error body
\* or the next read arrives, or the AbortError of a stopped call is delivered
Settle(c) ==
  /\ c \in DOMAIN calls
  /\ \/ \E deltas \in ClientDeltas, finished \in BOOLEAN : FetchOk(c, deltas, finished)
     \/ \E response \in ErrorResponses : FetchNotOk(c, response)
     \/ FetchRejects(c)
     \/ ErrorBodyRead(c)
     \/ \E n \in LineEnds(calls[c].body) : ReadChunk(c, n)
     \/ ReadDone(c)
     \/ ReadRejects(c)
     \/ HandleAbort(c)

\* every pending await of every call settles in the end
ClientFairness == \A c \in 1..MaxCalls : WF_vars(Settle(c))

\* SpecStream: one request whose body is cut into reads at every position
StreamSend == calls = <<>> /\ SendMessage(<<"q">>)
StreamFetchOk ==
  /\ calls # <<>>
  /\ \E deltas \in SeqsUpTo(DeltaTexts, MaxDeltas), finished \in BOOLEAN :
       FetchOk(1, deltas, finished)
StreamRead == calls # <<>> /\ \E n \in 1..Len(calls[1].body) : ReadChunk(1, n)
StreamReadDone == calls # <<>> /\ ReadDone(1)

NextStream == StreamSend \/ StreamFetchOk \/ StreamRead \/ StreamReadDone

\* SpecTail: one request whose body ends in the middle of its last line
TailFetchOk ==
  /\ calls # <<>>
  /\ \E deltas \in SeqsUpTo(DeltaTexts, MaxDeltas) : FetchOkUnterminated(1, deltas)

NextTail == StreamSend \/ TailFetchOk \/ StreamRead \/ StreamReadDone

\* ------------------------------------------------------------------ SpecRank
\* Sections a ranked corpus is built from: no embedding, an empty one, or a vector
RankSectionsPool ==
  { Section(<<"5", "1">>, FALSE, <<>>), Section(<<"5", "1">>, TRUE, <<>>) }
  \cup { Section(<<"5", "1">>, TRUE, v) : v \in SectionVectors }

RankIdle ==
  /\ rkImpl = "stream"
  /\ rkCorpus = ArrayValue(<<>>)
  /\ rkQuery = <<>>
  /\ rkTopK = DefaultTopK
  /\ rkPc = "idle"
  /\ rkResult = Returned(<<>>, FALSE)

InitRank ==
  /\ rkImpl \in {"stream", "legacy"}
  /\ rkCorpus \in { ArrayValue(c) : c \in SeqsUpTo(RankSectionsPool, MaxSections) }
  /\ rkQuery \in QueryVectors \cup {<<>>}
  /\ rkTopK \in 0..MaxK
  /\ rkPc = "call"
  /\ rkResult = Returned(<<>>, FALSE)

RankStreaming ==
  /\ rkPc = "call" /\ rkImpl = "stream"
  /\ rkResult' = findRelevantSections(rkCorpus, rkQuery, rkTopK)
  /\ rkPc' = "done"
  /\ UNCHANGED <<rkImpl, rkCorpus, rkQuery, rkTopK, notRank>>

RankLegacy ==
  /\ rkPc = "call" /\ rkImpl = "legacy"
  /\ rkResult' = findRelevantSectionsLegacy(rkCorpus, rkQuery, rkTopK)
  /\ rkPc' = "done"
  /\ UNCHANGED <<rkImpl, rkCorpus, rkQuery, rkTopK, notRank>>

NextRank == RankStreaming \/ RankLegacy

\* SpecCosine: one call of cosineSimilarity on two vectors of small integers
CosineComponents == {-1, 0, 1, 2}

CosineIdle ==
  /\ csA = <<>> /\ csB = <<>> /\ csPc = "idle" /\ csResult = FloatZero

InitCosine ==
  /\ csA \in SeqsUpTo(CosineComponents, MaxDim)
  /\ csB \in SeqsUpTo(CosineComponents, MaxDim)
  /\ csPc = "call"
  /\ csResult = FloatZero

CosineCall ==
  /\ csPc = "call"
  /\ csResult' = cosineSimilarityFloat(csA, csB)
  /\ csPc' = "done"
  /\ UNCHANGED <<csA, csB, notCosine>>

NextCosine == CosineCall

InitCosineOnly == InitCosine /\ RankIdle /\ ServerIdle /\ ClientIdle

SpecCosine == InitCosineOnly /\ [][NextCosine]_vars

InitRankOnly == InitRank /\ ServerIdle /\ ClientIdle /\ CosineIdle

SpecRank == InitRankOnly /\ [][NextRank]_vars

Init == InitServer /\ RankIdle /\ ClientIdle /\ CosineIdle

Next == NextServer

Spec == Init /\ [][Next]_vars

InitClientOnly == InitClient /\ RankIdle /\ ServerIdle /\ CosineIdle

SpecClient == InitClientOnly /\ [][NextClient]_vars

\* SpecClientFair: the steps of NextClient that issue, stop, settle or end a
\* request, and deleteChat, which takes the target chat away under a running
\* request; createNewChat and the chat selection, which touch neither the
\* requests nor the loading state, are left out
NextLoading ==
  \/ ClientSend
  \/ StopStreaming
  \/ \E chatId \in 1..MaxClock : DeleteChat(chatId)
  \/ ClientFetchOk
  \/ ClientFetchNotOk
  \/ \E c \in DOMAIN calls : FetchRejects(c)
  \/ \E c \in DOMAIN calls : ErrorBodyRead(c)
  \/ ClientRead
  \/ \E c \in DOMAIN calls : ReadDone(c)
  \/ \E c \in DOMAIN calls : ReadRejects(c)
  \/ \E c \in DOMAIN calls : HandleAbort(c)

SpecClientFair == InitClientOnly /\ [][NextLoading]_vars /\ ClientFairness

SpecStream == InitClientOnly /\ [][NextStream]_vars

SpecTail == InitClientOnly /\ [][NextTail]_vars

\* ------------------------------------------------------------------ claims
\* the scenario of the specification: two sections, query [0.9, 0.1], K = 2
ScenarioCorpus ==
  ArrayValue(<<Section(<<"5", "1">>, TRUE, <<1, 0>>), Section(<<"5", "1">>, TRUE, <<0, 1>>)>>)

Descending(secs) ==
  \A i \in 1..(Len(secs) - 1) : SimGeq(secs[i].similarity, secs[i + 1].similarity)

\* C1: whatever the query vector, the corpus and K, a finished call of the
\* ranker returned at most K scored sections, each one's similarity at least
\* the next one's; in the scenario (sections [1,0] and [0,1], query [0.9,0.1],
\* K = 2) the [1,0] section comes first and the [0,1] section second.
C1_AtMostKDescending ==
  rkPc = "done" =>
    /\ ~rkResult.threw
    /\ Len(rkResult.secs) <= rkTopK
    /\ Descending(rkResult.secs)
    /\ (rkCorpus = ScenarioCorpus /\ rkQuery = <<9, 1>> /\ rkTopK = 2) =>
         /\ Len(rkResult.secs) = 2
         /\ rkResult.secs[1].idx = 1 /\ rkResult.secs[2].idx = 2
         /\ SimGt(rkResult.secs[1].similarity, rkResult.secs[2].similarity)

\* a call that ranked more embedded sections than K, of different similarities
C1_Witness ==
  /\ rkPc = "done"
  /\ rkTopK >= 2
  /\ Len(rkResult.secs) = rkTopK
  /\ Len(FilterEmbedded(rkCorpus.secs, 1)) > rkTopK
  /\ SimGt(rkResult.secs[1].similarity, rkResult.secs[rkTopK].similarity)
  /\ rkResult.secs[1].idx > rkResult.secs[rkTopK].idx

\* ----------------------------------------------------------- server claims
Requests == 1..MaxRequests

\* the place of a step in a request's order of steps (0: it has not happened)
Pos(rec, tag) ==
  IF Has(rec, tag) THEN CHOOSE i \in 1..Len(rec.events) :
                          rec.events[i] = tag /\ \A j \in 1..(i - 1) : rec.events[j] # tag
  ELSE 0

\* the embedding call of the request was made and returned the empty vector
EmbeddingFailed(rec) == Has(rec, "embed") /\ rec.queryEmbedding = <<>>

\* the system message of a prompt without any retrieved section
BareSystemMessage == SystemMessage(SystemPrompt(<<>>, <<>>))

\* What C3 says of one request whose embedding call failed: nothing was
\* retrieved, the completion call was issued with the bare system message and
\* the conversation, and a stream response carries the empty header value.
EmbeddingFailureDegrades(rec) ==
  /\ rec.relevant = <<>>
  /\ Has(rec, "rank") /\ Has(rec, "complete")
  /\ rec.sent = <<BareSystemMessage>> \o rec.body.messages
  /\ rec.sectionNumbers = <<>>
  /\ rec.response.status = 200 => (rec.response.hasHeader /\ rec.response.header = <<>>)

WellFormed(a) ==
  /\ a.kind = "json" /\ a.value.kind = "array"
  /\ \A i \in 1..Len(a.value.secs) : a.value.secs[i].kind = "sec"

LoadReturned(rec) == Has(rec, "load") \/ Has(rec, "loadFailed")

LoadSucceeded(rec) == Has(rec, "load") /\ rec.all.kind = "array"

\* What C5 says of one step taken after some load has succeeded: the artifact
\* is not read, and a request that starts in the step gets the cached corpus
\* back at once.
MemoizedStep ==
  /\ fileReads' = fileReads
  /\ \A r \in Requests :
       (req[r].pc = "idle" /\ LoadReturned(req'[r])) =>
          /\ Has(req'[r], "load")
          /\ req'[r].all = artifact.value
  /\ \A r \in Requests : req[r].pc = "idle" => req'[r].pc # "reading"

Conversation(body) ==
  IF body.kind = "messages" THEN body.messages
  ELSE body.chatHistory \o <<Msg(0, "user", body.message)>>

Occurrences(s, x) == Cardinality({ i \in 1..Len(s) : s[i] = x })

\* What C6 says of one request whose completion call was issued.
SentIsSystemPlusConversation(rec) ==
  LET conv == Conversation(rec.body)
  IN /\ Len(rec.sent) = Len(conv) + 1
     /\ rec.sent[1].role = "system"
     /\ \A i \in 1..Len(conv) : rec.sent[i + 1] = conv[i]
     /\ \A i \in 2..Len(rec.sent) : rec.sent[i].role # "system"
     /\ conv # <<>> => Occurrences(rec.sent, conv[Len(conv)]) = 1

C8_StepsOrdered ==
  \A r \in Requests :
    LET rec == req[r]
    IN /\ Has(rec, "prompt") =>
            /\ LoadReturned(rec)
            /\ Pos(rec, "load") + Pos(rec, "loadFailed") < Pos(rec, "rank")
            /\ Has(rec, "embedCall") =>
                 (Pos(rec, "embedCall") < Pos(rec, "embed")
                  /\ Pos(rec, "embed") < Pos(rec, "rank"))
            /\ 0 < Pos(rec, "rank") /\ Pos(rec, "rank") < Pos(rec, "prompt")
       /\ Has(rec, "complete") =>
            (0 < Pos(rec, "prompt") /\ Pos(rec, "prompt") < Pos(rec, "complete"))
       /\ rec.pc \in {"reading", "embedding"} =>
            (~Has(rec, "prompt") /\ ~Has(rec, "complete") /\ rec.sent = <<>>)

\* a request went through load, embedding, ranking, prompt and completion call
C8_Witness ==
  \E r \in Requests :
    req[r].events = <<"load", "embedCall", "embed", "rank", "prompt", "complete">>

NoRemoteCall(rec) ==
  ~Has(rec, "embedCall") /\ ~Has(rec, "embed") /\ ~Has(rec, "complete")

\* C10 as stated: without the API key every answered request got the
\* configuration error, and no embedding or completion call was made for it.
C10_Original ==
  \A r \in Requests :
    (~apiKey /\ req[r].pc # "idle") =>
       /\ req[r].pc = "responded"
       /\ req[r].response \in {ConfigError, ConfigErrorLegacy}
       /\ NoRemoteCall(req[r])

\* the requests the handlers test the key for: the body parses and, in the
\* streaming handler, holds a last message with content
ReachesKeyTest(body) ==
  IF route = "stream" THEN body.kind = "messages" /\ LatestMessage(body.messages) # <<>>
  ELSE body.kind # "malformed"

\* C10 amended: without the API key every request is answered at once with a
\* non-2xx { error } response and no embedding call, completion call or corpus
\* load is made for it; the response is the configuration error when the body
\* parses and (in the streaming handler) its last message has content, and the
\* parse or "No message provided" error otherwise.
C10_NoKeyNoCalls ==
  \A r \in Requests :
    (~apiKey /\ req[r].pc # "idle") =>
       /\ req[r].pc = "responded"
       /\ req[r].response.status >= 400 /\ req[r].response.error # ""
       /\ req[r].response.kind = "json"
       /\ NoRemoteCall(req[r]) /\ ~LoadReturned(req[r]) /\ fileReads = 0
       /\ ReachesKeyTest(req[r].body) =>
            req[r].response = (IF route = "stream" THEN ConfigError ELSE ConfigErrorLegacy)

\* without the key, one request got the configuration error and another one
\* the "No message provided" error
C10_Witness ==
  /\ ~apiKey
  /\ \E r \in Requests : req[r].response = ConfigError
  /\ \E r \in Requests : req[r].response = NoMessageError

\* C11: every request whose handling raised an error (the body did not parse
\* or had no messages, the corpus value made the retrieval throw, the remote
\* model's call rejected) is answered 500 with the body { error: 'Internal
\* server error. Please try again.' }; the body holds no text of the thrown
\* value (name, message, stack, code) and the response has no other content.
C11_GenericErrorOnly ==
  \A r \in Requests :
    req[r].thrown # NoError =>
      /\ req[r].pc = "responded"
      /\ req[r].response = ErrorResponse(500, "Internal server error. Please try again.")
      /\ req[r].response.error \notin ErrorDetails(req[r].thrown)

\* one request was answered after the remote model's call rejected and another
\* one after its body failed to parse
C11_Witness ==
  /\ \E r \in Requests : req[r].thrown = ProviderError /\ req[r].pc = "responded"
  /\ \E r \in Requests : req[r].thrown = BodySyntaxError /\ req[r].pc = "responded"

\* the ASCII characters of the labels of the sections from the i-th on, the
\* labels that have characters being separated by ", "
RECURSIVE SanitizedLabels(_, _, _)
SanitizedLabels(relevant, i, first) ==
  IF i > Len(relevant) THEN <<>>
  ELSE IF relevant[i].section = <<>> THEN SanitizedLabels(relevant, i + 1, first)
  ELSE (IF first THEN <<>> ELSE <<",", " ">>)
       \o SelectSeq(relevant[i].section, LAMBDA ch : ch # "U+00A7")
       \o SanitizedLabels(relevant, i + 1, FALSE)

\* C14: the x-relevant-sections header of every streamed response holds no
\* non-ASCII character, and it is the labels of the retrieved sections, in rank
\* order, each without its non-ASCII characters, joined by ", " (sections
\* without a label are left out); the label "§51" contributes "51".
C14_HeaderAscii ==
  /\ StripNonAscii(<<"U+00A7", "5", "1">>) = <<"5", "1">>
  /\ \A r \in Requests :
       req[r].response.hasHeader =>
         /\ \A i \in 1..Len(req[r].response.header) : req[r].response.header[i] # "U+00A7"
         /\ req[r].response.header = SanitizedLabels(req[r].relevant, 1, TRUE)
         /\ Descending(req[r].relevant)

\* a streamed response whose retrieved sections are "51", one without a label
\* and "§7", in this rank order: the header is "51, 7"
C14_Witness ==
  \E r \in Requests :
    /\ req[r].response.hasHeader
    /\ Len(req[r].relevant) = 3
    /\ req[r].relevant[2].section = <<>>
    /\ req[r].relevant[3].section = <<"U+00A7", "7">>
    /\ req[r].response.header = <<"5", "1", ",", " ", "7">>

\* the tokens a context block is made of
ContextTokens == { "Details:\n", "Section: ", "Chapter: ", "Part: ", "Content: ", "\n\n---\n\n" }

\* C15: in every request whose corpus load returned the empty array, the
\* ranker returned the empty sequence without calling the embedding model, and
\* the first message sent to the completion model is the system message made of
\* the fixed instructions only: its text has no details block, no section
\* label and no section content.
C15_EmptyCorpusNoContext ==
  \A r \in Requests :
    (LoadReturned(req[r]) /\ req[r].all = ArrayValue(<<>>)) =>
      /\ req[r].pc \in {"completing", "responded"}
      /\ Has(req[r], "rank") /\ ~Has(req[r], "embedCall")
      /\ req[r].relevant = <<>>
      /\ req[r].sectionNumbers = <<>>
      /\ req[r].sent # <<>>
      /\ req[r].sent[1].role = "system"
      /\ req[r].sent[1].content =
           <<"You are AskAussie ...", "Relevant constitutional sections for this query: ",
             "\n", "\n", "Please provide a helpful, accurate response ...">>
      /\ \A i \in 1..Len(req[r].sent[1].content) :
           req[r].sent[1].content[i] \notin ContextTokens

\* the artifact holds the empty array, a request loaded it and its completion
\* call was issued
C15_Witness ==
  /\ artifact = JsonFile(ArrayValue(<<>>))
  /\ \E r \in Requests :
       /\ Has(req[r], "load") /\ req[r].all = ArrayValue(<<>>)
       /\ Has(req[r], "complete")

\* ----------------------------------------------------------- client claims
\* the messages of all the chats of a chats value
MessagesOf(cs) ==
  UNION { { cs[j].messages[k] : k \in 1..Len(cs[j].messages) } : j \in 1..Len(cs) }

HasMessage(cs, msgId) == \E m \in MessagesOf(cs) : m.id = msgId

ContentOf(cs, msgId) == (CHOOSE m \in MessagesOf(cs) : m.id = msgId).content

IsPrefix(p, t) == Len(p) <= Len(t) /\ SubSeq(t, 1, Len(p)) = p

\* the assistant message of a call is shown and its text is not the same after
\* the step as before it
ContentChanges(call) ==
  /\ HasMessage(chats, call.newAssistantMessageId)
  /\ HasMessage(chats', call.newAssistantMessageId)
  /\ ContentOf(chats', call.newAssistantMessageId)
       # ContentOf(chats, call.newAssistantMessageId)

\* C2: once stopStreaming has aborted a call's controller, no step changes the
\* text of that call's assistant message (it stays as it is until it is
\* removed) and the read loop decodes nothing more for it; and when the call's
\* abort branch has run, neither localStorage 'askaussie-chats' nor the chats
\* state holds the call's assistant message, however many deltas had been
\* received before the abort.
C2_AbortDiscards ==
  [][ \A c \in DOMAIN calls :
        /\ calls[c].aborted =>
             /\ ~ContentChanges(calls[c])
             /\ calls'[c].fullResponse = calls[c].fullResponse
             /\ ~HasMessage(chats, calls[c].newAssistantMessageId) =>
                  ~HasMessage(chats', calls[c].newAssistantMessageId)
        /\ calls'[c].pc = "aborted" =>
             /\ ~HasMessage(stored', calls[c].newAssistantMessageId)
             /\ ~HasMessage(chats', calls[c].newAssistantMessageId) ]_vars

\* a call was aborted after one of its two deltas had been shown, its abort
\* branch has run, and the user message of its turn is still stored
C2_Witness ==
  \E c \in DOMAIN calls :
    /\ calls[c].pc = "aborted"
    /\ calls[c].fullResponse = <<"a">>
    /\ HasMessage(stored, calls[c].newAssistantMessageId - 1)

\* a text delta of the call is emitted in the step: the read loop decodes text,
\* or the shown text of its assistant message changes to something that is not
\* the error notice
DeltaEmitted(c) ==
  \/ calls'[c].fullResponse # calls[c].fullResponse
  \/ /\ ContentChanges(calls[c])
     /\ IsPrefix(<<"Error: ">>, ContentOf(chats', calls[c].newAssistantMessageId)) = FALSE

\* C7: a request is Idle from the fetch until the response arrives, Streaming
\* while the body is read, and Completed, Aborted or Failed once the matching
\* branch of the try/catch has run.  In every step, a request in a terminal
\* state stays in that same state (so it reaches at most one and never leaves
\* it), a request moves only forward (Idle to Streaming or to Aborted or Failed,
\* Streaming to a terminal state), and a text delta is emitted only for a
\* request that is Streaming before the step.
C7_StateMachine ==
  [][ \A c \in DOMAIN calls :
        LET before == Phase(calls[c])
            after == Phase(calls'[c])
        IN /\ before \in Terminal => after = before
           /\ before = "Streaming" => after \in {"Streaming"} \cup Terminal
           /\ before = "Idle" => after \in {"Idle", "Streaming", "Aborted", "Failed"}
           /\ DeltaEmitted(c) => before = "Streaming" ]_vars

\* one request completed with both deltas and another one failed while it was
\* streaming, after a delta
C7_Witness ==
  \E c, d \in DOMAIN calls :
    /\ calls[c].pc = "completed" /\ calls[c].fullResponse = <<"a", "b">>
    /\ calls[d].pc = "failed" /\ calls[d].fullResponse = <<"a">>

\* C9: while the body of a response is read, and when it has been read to its
\* end, the text of the call's assistant message is a prefix of the
\* concatenation of the deltas the remote model produced, in production order;
\* when the read loop has ended it is that whole concatenation, and so is the
\* stored message.  This holds for every way of cutting the body into reads.
C9_DeltasInOrder ==
  \A c \in DOMAIN calls :
    LET call == calls[c]
        produced == Concat(call.deltas)
    IN call.pc \in {"read", "completed"} =>
         /\ HasMessage(chats, call.newAssistantMessageId)
         /\ IsPrefix(ContentOf(chats, call.newAssistantMessageId), produced)
         /\ ContentOf(chats, call.newAssistantMessageId) = call.fullResponse
         /\ call.pc = "completed" =>
              /\ ContentOf(chats, call.newAssistantMessageId) = produced
              /\ HasMessage(stored, call.newAssistantMessageId)
              /\ ContentOf(stored, call.newAssistantMessageId) = produced

\* a response of two different deltas, one of them with a line feed, was read
\* to its end
C9_Witness ==
  /\ calls # <<>>
  /\ calls[1].pc = "completed"
  /\ calls[1].deltas = << <<"a", "\n", "b">>, <<"\"">> >>
  /\ calls[1].fullResponse = <<"a", "\n", "b", "\"">>

\* a read ended in the middle of the second text frame: the first delta is
\* shown and the beginning of the second frame is in the buffer
C9_MidFrame ==
  /\ calls # <<>>
  /\ calls[1].pc = "read"
  /\ Len(calls[1].deltas) = 2
  /\ calls[1].fullResponse = calls[1].deltas[1]
  /\ Len(calls[1].buffer) >= 3 /\ calls[1].buffer[1] = "0"

\* the text is the error notice the error branch writes
IsErrorNotice(text) == IsPrefix(<<"Error: ">>, text)

\* an error has been delivered to the call: the error body of a non-2xx
\* response was read, or the stream's error frame was read
ErrorDelivered(call) ==
  \/ call.pc = "failed" /\ call.error # <<>>
  \/ call.pc \in {"read", "completed"} /\ ~call.finished /\ call.body = <<>>

\* C12: when an error has been delivered to a call and the call has ended, the
\* call's assistant message is still in its chat (if the chat still exists), in
\* the state and in localStorage, and its content is the error notice.
C12_ErrorTokenShown ==
  \A c \in DOMAIN calls :
    LET call == calls[c]
        id == call.newAssistantMessageId
    IN (ErrorDelivered(call) /\ Phase(call) \in {"Completed", "Failed"}
          /\ HasChat(chats, call.targetChatId)) =>
         /\ HasMessage(chats, id) /\ IsErrorNotice(ContentOf(chats, id))
         /\ HasMessage(stored, id) /\ IsErrorNotice(ContentOf(stored, id))

\* the part of C12 that holds: an error delivered as a non-2xx response, or a
\* fetch or read that rejects, ends in the error notice, kept in state and
\* storage
C12_ErrorResponseShown ==
  \A c \in DOMAIN calls :
    LET call == calls[c]
        id == call.newAssistantMessageId
    IN (call.pc = "failed" /\ HasChat(chats, call.targetChatId)) =>
         /\ HasMessage(chats, id) /\ IsErrorNotice(ContentOf(chats, id))
         /\ HasMessage(stored, id) /\ IsErrorNotice(ContentOf(stored, id))

\* ------------------------------------------------------------ cosine claims
AllZero(v) == \A i \in 1..Len(v) : v[i] = 0

\* C16: cosineSimilarity returns exactly 0 whenever its two vectors differ in
\* length or one of them has zero magnitude, the empty vector included; no
\* other value (NaN from 0 / 0) and no exception comes out of such a call.
C16_DegenerateIsZero ==
  (csPc = "done" /\ (Len(csA) # Len(csB) \/ AllZero(csA) \/ AllZero(csB)))
    => csResult = FloatZero

\* a call on a zero vector and a non-zero vector of the same non-zero length
C16_Witness ==
  /\ csPc = "done"
  /\ Len(csA) = Len(csB) /\ Len(csA) > 0
  /\ AllZero(csA) /\ ~AllZero(csB)
  /\ csResult = FloatZero

\* x is 1 or one of the numbers next to 1, at most 4 * 2^-FloatBits away
NearOne(x) ==
  /\ x.kind = "num" /\ x.sign = 1
  /\ \/ x = FloatOne
     \/ x.e = -FloatBits /\ x.m >= Pow2(FloatBits) - 4
     \/ x.e = 1 - FloatBits /\ x.m <= Pow2(FloatBits - 1) + 2

Symmetric ==
  (csPc = "done" /\ Len(csA) = Len(csB) /\ Len(csA) > 0)
    => csResult = cosineSimilarityFloat(csB, csA)

\* C17 as stated: cosineSimilarity(a, b) = cosineSimilarity(b, a) for vectors
\* of equal non-zero length, and cosineSimilarity(a, a) equals 1 for every
\* non-zero a.
C17_SelfSimilarityIsOne ==
  /\ Symmetric
  /\ (csPc = "done" /\ csA = csB /\ ~AllZero(csA)) => csResult = FloatOne

\* C17, amended: cosineSimilarity(a, b) = cosineSimilarity(b, a) exactly for
\* vectors of equal non-zero length, and cosineSimilarity(a, a) is 1 up to the
\* rounding of the square roots, the product and the quotient: it is 1 or a
\* number within a few units in the last place of 1.
C17_SymmetricNearOne ==
  /\ Symmetric
  /\ (csPc = "done" /\ csA = csB /\ ~AllZero(csA)) => NearOne(csResult)

\* the call cosineSimilarity([1, 1], [1, 1]), whose result is below 1
C17_Witness ==
  /\ csPc = "done"
  /\ csA = <<1, 1>> /\ csB = <<1, 1>>
  /\ csResult # FloatOne /\ NearOne(csResult)

\* a call on two different non-zero vectors of the same length
C17_SymmetryWitness ==
  /\ csPc = "done"
  /\ csA = <<1, 2>> /\ csB = <<2, -1>>
  /\ csResult = cosineSimilarityFloat(csB, csA)

\* ------------------------------------------------------------- cache claims
\* C18: the corpus cache is read-only after the first load: once
\* constitutionData holds the loaded corpus, no step of any request (ranking
\* with its sort and slice, prompt building, a second load that raced with the
\* first) changes the cached sections' contents or their order.
C18_CacheReadOnly ==
  [][Truthy(constitutionData) => constitutionData' = constitutionData]_vars

\* a request ranked the cached corpus into an order that is not the corpus's
\* order, and the cache still holds the corpus as the artifact has it
C18_Witness ==
  /\ route = "stream"
  /\ Truthy(constitutionData) /\ constitutionData = artifact.value
  /\ \E r \in Requests :
       /\ Has(req[r], "load") /\ Has(req[r], "rank")
       /\ req[r].all = constitutionData
       /\ Len(req[r].relevant) >= 2
       /\ req[r].relevant[1].idx > req[r].relevant[2].idx

OwnCorpus(rec) == IF Has(rec, "loadFailed") THEN ArrayValue(<<>>) ELSE artifact.value
OwnRelevant(rec) ==
  findRelevantSections(OwnCorpus(rec), rec.queryEmbedding, DefaultTopK).secs
OwnSent(rec) ==
  ConversationMessages(SystemPrompt(SectionNumbers(OwnRelevant(rec)),
                                    Context(OwnRelevant(rec))),
                       rec.body.messages)

\* C20: concurrent requests of the streaming handler are independent: under
\* every interleaving with other requests, the corpus a request ranks, the
\* sections it retrieves, the prompt it sends and the response it returns are
\* what its own inputs give; what other requests did, and whether the corpus
\* came from the cache or from a read, makes no difference.
C20_RequestsIndependent ==
  route = "stream" =>
    \A r \in Requests :
      LET rec == req[r]
      IN /\ LoadReturned(rec) => rec.all = OwnCorpus(rec)
         /\ Has(rec, "complete") =>
              /\ rec.relevant = OwnRelevant(rec)
              /\ rec.sent = OwnSent(rec)
         /\ (rec.pc = "responded" /\ Has(rec, "complete") /\ rec.thrown = NoError) =>
              rec.response = StreamResponse(SectionNumbers(OwnRelevant(rec)))

\* two requests in flight at once, both past retrieval, with different
\* retrieved sections; one took the corpus from the cache the other filled
C20_Witness ==
  /\ route = "stream" /\ fileReads = 1
  /\ req[1].pc = "completing" /\ req[2].pc = "completing"
  /\ Has(req[1], "rank") /\ Has(req[2], "rank")
  /\ Len(req[1].relevant) = DefaultTopK
  /\ req[1].relevant # req[2].relevant

\* ------------------------------------------------------------ ranker claims
\* a finished call that went through the ranking of lines 100-110
Ranked ==
  /\ rkPc = "done" /\ ~rkResult.threw /\ rkResult.embedCalled
  /\ Len(rkQuery) > 0

SameSimilarity(x, y) == SimGeq(x, y) /\ SimGeq(y, x)

\* the corpus places of the sections the ranking returned
ReturnedPlaces == { rkResult.secs[i].idx : i \in 1..Len(rkResult.secs) }

\* the corpus places of the sections with a non-empty embedding
EmbeddedPlaces ==
  { i \in 1..Len(rkCorpus.secs) :
      rkCorpus.secs[i].hasEmb /\ Len(rkCorpus.secs[i].embedding) > 0 }

\* C21: sections of equal similarity come out of the ranking in their corpus
\* order, and when a tie straddles the cut at K the sections kept are the ones
\* that come first in the corpus: a section left out that ties with a returned
\* one comes after it in the corpus.
C21_StableTies ==
  Ranked =>
    /\ \A i, j \in 1..Len(rkResult.secs) :
         (i < j /\ SameSimilarity(rkResult.secs[i].similarity, rkResult.secs[j].similarity))
           => rkResult.secs[i].idx < rkResult.secs[j].idx
    /\ \A m \in EmbeddedPlaces \ ReturnedPlaces :
         \A i \in 1..Len(rkResult.secs) :
           SameSimilarity(cosineSimilarity(rkQuery, rkCorpus.secs[m].embedding),
                          rkResult.secs[i].similarity)
             => rkResult.secs[i].idx < m

\* a ranking with a tie inside the result and a tie across the cut: the
\* section left out ties with the last one returned
C21_Witness ==
  /\ Ranked
  /\ rkTopK = 2 /\ Len(rkResult.secs) = 2
  /\ SameSimilarity(rkResult.secs[1].similarity, rkResult.secs[2].similarity)
  /\ \E m \in EmbeddedPlaces \ ReturnedPlaces :
       SameSimilarity(cosineSimilarity(rkQuery, rkCorpus.secs[m].embedding),
                      rkResult.secs[2].similarity)

Min(a, b) == IF a < b THEN a ELSE b

\* C22: when the query has an embedding, the streaming handler's ranker returns
\* exactly min(K, number of sections with a non-empty embedding) sections,
\* wherever in the corpus the sections without an embedding are and however low
\* the similarities are.
C22_AllEmbeddedConsidered ==
  (rkPc = "done" /\ rkImpl = "stream" /\ Len(rkQuery) > 0) =>
    /\ ~rkResult.threw
    /\ Len(rkResult.secs) = Min(rkTopK, Cardinality(EmbeddedPlaces))

\* the same for the corpora whose first section has an embedding, which are the
\* ones that get past the test of line 88
C22_FirstSectionEmbedded ==
  (rkPc = "done" /\ rkImpl = "stream" /\ Len(rkQuery) > 0
   /\ ~NoEmbeddingsLoaded(rkCorpus)) =>
    /\ ~rkResult.threw
    /\ Len(rkResult.secs) = Min(rkTopK, Cardinality(EmbeddedPlaces))

\* a ranking that returned a section of negative similarity and skipped a
\* section without an embedding in the middle of the corpus
C22_NoFloorReached ==
  /\ Ranked /\ rkImpl = "stream"
  /\ Len(rkCorpus.secs) = 3 /\ ~rkCorpus.secs[2].hasEmb
  /\ Len(rkResult.secs) = 2
  /\ SimGt(Zero, rkResult.secs[2].similarity)

\* ------------------------------------------------------------- load claims
\* a step in which a request's own read ends in line 47, the assignment to
\* constitutionData
CacheWritten ==
  \E r \in Requests :
    /\ req[r].pc = "reading" /\ req'[r].pc # "reading"
    /\ Has(req'[r], "load")

\* C23: the artifact is read at most once and the cache is written at most
\* once, also when first requests run concurrently: no read starts after the
\* first one, and no assignment to the cache happens once it is set.
C23_LoadedOnce ==
  /\ [](route = "stream" => fileReads <= 1)
  /\ [][(route = "stream" /\ Truthy(constitutionData)) => ~CacheWritten]_vars

\* what holds instead: a request that starts once the cache is set reads
\* nothing, so there are at most as many reads as requests that started before
\* the first load finished
C23_NoReadOnceCached ==
  [][(route = "stream" /\ Truthy(constitutionData)) => fileReads' = fileReads]_vars

\* ------------------------------------------------------------ stream claims
\* how many characters of its response body a call has read
Consumed(call) == Len(StreamBody(call.deltas, call.finished)) - Len(call.body)

\* the place in the body where the k-th text frame ends
TextFrameEnd(call, k) ==
  Len(Frame("f", <<"{", "}">>)) + Len(TextFrames(SubSeq(call.deltas, 1, k)))

\* the text frames the reads so far have delivered whole
FramesRead(call) ==
  Cardinality({ k \in 1..Len(call.deltas) : TextFrameEnd(call, k) <= Consumed(call) })

\* C24: for a body in which every frame ends with a line feed, and for every
\* way of cutting it into reads, the text the read loop has built is the
\* concatenation, in order, of the decoded payloads of the 0: frames read whole
\* so far, so frames with other tags (f:, e:, d:) and the unfinished part of a
\* frame add nothing; when the loop ends, the assistant message is the
\* concatenation of all of them.
C24_FramesDecodedInOrder ==
  \A c \in DOMAIN calls :
    LET call == calls[c]
    IN call.pc \in {"read", "completed"} =>
         /\ call.fullResponse = Concat(SubSeq(call.deltas, 1, FramesRead(call)))
         /\ call.pc = "completed" =>
              ContentOf(chats, call.newAssistantMessageId) = Concat(call.deltas)

\* a read ended inside the second text frame, whose text looks like a frame
\* tag: the first delta is decoded, the cut frame waits in the buffer
C24_Witness ==
  /\ calls # <<>>
  /\ calls[1].pc = "read"
  /\ Len(calls[1].deltas) = 2 /\ calls[1].deltas[2] = <<"0", ":">>
  /\ FramesRead(calls[1]) = 1
  /\ calls[1].fullResponse = calls[1].deltas[1]
  /\ Len(calls[1].buffer) >= 4

\* ----------------------------------------------------------- loading claims
\* a request that has been issued, has not reached the end of its try/catch and
\* has not been stopped
InFlight(call) == Phase(call) \notin Terminal /\ ~call.aborted

Stoppable(c) == isLoading /\ abortController = c

C25_OnlyLateAbortBreaks ==
  [][ \A c \in DOMAIN calls :
        (InFlight(calls[c]) /\ Stoppable(c) /\ InFlight(calls'[c]) /\ ~Stoppable(c)')
          => \E d \in DOMAIN calls :
               d # c /\ calls[d].aborted /\ calls[d].pc # "aborted"
               /\ calls'[d].pc = "aborted" ]_vars

\* the second request is in flight and cannot be stopped: the finally of the
\* first, stopped request has cleared isLoading and abortController
C25_Unstoppable ==
  /\ Len(calls) = 2
  /\ calls[1].pc = "aborted"
  /\ InFlight(calls[2])
  /\ ~isLoading /\ abortController = Null

\* ------------------------------------------------------- persistence claims
ChatIds(cs) == { cs[j].id : j \in 1..Len(cs) }

\* C26: while a request is in flight, localStorage does not hold its assistant
\* message (the empty placeholder or the partial text), whatever createNewChat
\* and deleteChat do meanwhile.
C26_InProgressNotPersisted ==
  \A c \in DOMAIN calls :
    InFlight(calls[c]) => ~HasMessage(stored, calls[c].newAssistantMessageId)

\* what holds instead: the assistant message of a request in flight gets into
\* localStorage only in a step that creates or deletes a chat, or in a step of
\* another request (its sendMessage or one of its terminal branches); the
\* request's own stream updates never write it there
C26_OnlySavesPersist ==
  [][ \A c \in DOMAIN calls :
        (/\ InFlight(calls[c]) /\ InFlight(calls'[c])
         /\ ~HasMessage(stored, calls[c].newAssistantMessageId)
         /\ HasMessage(stored', calls[c].newAssistantMessageId))
          => \/ ChatIds(chats') # ChatIds(chats)
             \/ Len(calls') # Len(calls)
             \/ \E d \in DOMAIN calls : d # c /\ calls'[d] # calls[d] ]_vars

\* a chat was created while the first request was streaming: localStorage holds
\* the request's assistant message with the partial text
C26_PartialPersisted ==
  /\ calls # <<>>
  /\ calls[1].pc = "read" /\ ~calls[1].aborted
  /\ calls[1].fullResponse = <<"a">>
  /\ HasMessage(stored, calls[1].newAssistantMessageId)
  /\ ContentOf(stored, calls[1].newAssistantMessageId) = <<"a">>

\* ------------------------------------------------------------ frame claims
\* the chat list without the assistant message of a call
WithoutOwnMessage(cs, call) ==
  RemoveMessage(cs, call.targetChatId, call.newAssistantMessageId)

\* C27: a step of a request (the response arriving, a stream update, the final
\* save, the error branch, the abort branch) leaves the chat list as it was but
\* for that request's own assistant message in its target chat: the same chats
\* in the same order, every other message with its content and place, and no
\* chat added, so a deleted target chat does not come back; this also when the
\* user has switched or deleted chats meanwhile.
C27_OnlyOwnMessage ==
  [][ Len(calls') = Len(calls) =>
        \A c \in DOMAIN calls :
          calls'[c] # calls[c] =>
            WithoutOwnMessage(chats', calls[c]) = WithoutOwnMessage(chats, calls[c]) ]_vars

\* a stream update ran after the target chat was deleted: the text was decoded,
\* the chat is not in the list and the other chat is as it was
C27_Witness ==
  /\ calls # <<>>
  /\ calls[1].pc = "read" /\ calls[1].fullResponse = <<"a">>
  /\ ~HasChat(chats, calls[1].targetChatId)
  /\ Len(chats) = 1 /\ chats[1].messages = <<>>

\* -------------------------------------------------------------- tail claims
\* all but the last element
Front(s) == SubSeq(s, 1, Len(s) - 1)

\* the last text frame of a call without its line feed
LastFrameCut(call) == Front(TextFrame(call.deltas[Len(call.deltas)]))

\* C28: when the body ends without a line feed, what is left in the line
\* buffer is never decoded: the text built by the read loop never holds the
\* last delta, and when the stream has ended the assistant message, in the
\* state and in localStorage, is the concatenation of the deltas before it,
\* while the last frame still sits in the buffer.
C28_TailNeverDecoded ==
  \A c \in DOMAIN calls :
    LET call == calls[c]
        decoded == Concat(Front(call.deltas))
    IN (call.pc \in {"read", "completed"} /\ call.deltas # <<>>) =>
         /\ IsPrefix(call.fullResponse, decoded)
         /\ call.pc = "completed" =>
              /\ call.fullResponse = decoded
              /\ call.buffer = LastFrameCut(call)
              /\ ContentOf(chats, call.newAssistantMessageId) = decoded
              /\ ContentOf(stored, call.newAssistantMessageId) = decoded

\* a stream of two text frames ended without the last line feed: the first
\* delta is the message and the second frame is left in the buffer
C28_Witness ==
  /\ calls # <<>>
  /\ calls[1].pc = "completed"
  /\ calls[1].deltas = << <<"a">>, <<"\"">> >>
  /\ calls[1].fullResponse = <<"a">>
  /\ calls[1].buffer = <<"0", ":", "\"", "\\", "\"", "\"">>

\* ------------------------------------------------------ failed load claims
\* a request's own read ends in the step, in the catch (failed) or with the
\* parsed array (succeeded)
LoadFails(r) ==
  req[r].pc = "reading" /\ req'[r].pc # "reading" /\ Has(req'[r], "loadFailed")
LoadSucceeds(r) ==
  req[r].pc = "reading" /\ req'[r].pc # "reading" /\ LoadSucceeded(req'[r])

\* a request gets to loadConstitutionEmbeddings in the step
LoadCalled(r) ==
  req[r].pc = "idle" /\ (req'[r].pc = "reading" \/ LoadReturned(req'[r]))

\* C29: in the streaming handler a failed load is not memoized.  A load that
\* fails leaves the cache as it was; a request that calls the loader while the
\* cache is unset reads the artifact again; a load that succeeds puts the
\* parsed corpus in the cache; and a request that calls the loader once the
\* cache is set gets the cached corpus without a read.
C29_FailureNotMemoized ==
  [][ route = "stream" =>
        \A r \in Requests :
          /\ LoadFails(r) => constitutionData' = constitutionData
          /\ (LoadCalled(r) /\ ~Truthy(constitutionData)) =>
               (req'[r].pc = "reading" /\ fileReads' = fileReads + 1)
          /\ LoadSucceeds(r) =>
               (constitutionData' = artifact.value /\ Truthy(constitutionData'))
          /\ (LoadCalled(r) /\ Truthy(constitutionData)) =>
               (/\ Has(req'[r], "load") /\ req'[r].all = constitutionData
                /\ fileReads' = fileReads) ]_vars

\* the first request's read failed, the second request read the artifact again
\* and its load filled the cache
C29_Witness ==
  /\ route = "stream"
  /\ Has(req[1], "loadFailed") /\ req[1].all = ArrayValue(<<>>)
  /\ LoadSucceeded(req[2]) /\ Len(req[2].all.secs) >= 2
  /\ fileReads = 2
  /\ constitutionData = artifact.value

\* ---------------------------------------------------------- liveness claims
Cleared == ~isLoading /\ pendingAssistantMessageId = Null /\ abortController = Null

\* C30: provided every pending fetch and read settles, every request that
\* sendMessage has issued reaches the end of its try/catch (completed, failed
\* or aborted): again and again all the requests issued so far have ended, and
\* an ended request stays ended.  The step that ends a request leaves
\* isLoading false, pendingAssistantMessageId null and abortController null.
C30_EventuallyCleared ==
  /\ []<>(\A c \in DOMAIN calls : Phase(calls[c]) \in Terminal)
  /\ [][ \A c \in DOMAIN calls :
           (Phase(calls[c]) \notin Terminal /\ Phase(calls'[c]) \in Terminal)
             => Cleared' ]_vars

\* two requests have ended, the first aborted and the second failed, and the
\* loading state is cleared
C30_Witness ==
  /\ Len(calls) = 2
  /\ calls[1].pc = "aborted" /\ calls[2].pc = "failed"
  /\ Cleared

====
